---------------------------- MODULE Spec2Model ----------------------------
(***************************************************************************)
(* Model of the caption pipeline of mojioko-youtube:                       *)
(*   src/lib/youtube-utils.ts  extractVideoId, isValidYouTubeUrl           *)
(*   src/app/actions.ts        getInnertube, fetchTranscriptFromUrl,       *)
(*                             formatTranscript, selectBestCaptionTrack,   *)
(*                             getTranscript                               *)
(*                                                                         *)
(* Strings are sequences of characters, a character being a one-letter     *)
(* TLA+ string.  Characters outside ASCII are written as tokens:           *)
(*   "KUTEN" is U+3002, "EXCL" is U+FF01, "QUES" is U+FF1F, "Uhhhh" is the *)
(*   character of code point hhhh (a control character without escape, a   *)
(*   space separator, an ideograph; "U0060" is the grave accent, which a   *)
(*   TLA+ string cannot hold), and a token starting with "MSG_" is         *)
(*   one of the fixed Japanese message literals of getTranscript.          *)
(***************************************************************************)
EXTENDS Integers, Sequences, FiniteSets, TLC

VARIABLES
    \* formatTranscript (actions.ts:137-184): its argument, locals and result
    segments, i, lines, currentLine, lastEndMs, fmtPc, fmtResult,
    \* selectBestCaptionTrack (actions.ts:253-276): arguments and result
    tracks, preferredLangs, selPc, selected,
    \* extractVideoId / isValidYouTubeUrl (youtube-utils.ts): argument, results
    url, urlPc, videoId, valid,
    \* the decoding loop of fetchTranscriptFromUrl (actions.ts:109-133): the
    \* events of the payload and the segments returned
    dataEvents, parsed, parsePc,
    \* translateLanguageName (actions.ts:187-250): argument and result
    trInput, trOutput, trPc,
    \* the classification after the retry loop (actions.ts:427-493): the
    \* error classified and the result returned
    clsError, clsResult, clsPc,
    \* the module state of actions.ts (lines 32-33), the initializations
    \* started so far, and the getTranscript calls
    innertubeInstance, initializationPromise, inits, req

fmtVars == <<segments, i, lines, currentLine, lastEndMs, fmtPc, fmtResult>>
selVars == <<tracks, preferredLangs, selPc, selected>>
urlVars == <<url, urlPc, videoId, valid>>
prsVars == <<dataEvents, parsed, parsePc>>
trVars == <<trInput, trOutput, trPc>>
clsVars == <<clsError, clsResult, clsPc>>
srvVars == <<innertubeInstance, initializationPromise, inits, req>>
vars == <<fmtVars, selVars, urlVars, prsVars, trVars, clsVars, srvVars>>

(***************************************************************************)
(* Bounds of the model.                                                    *)
(***************************************************************************)
MaxSegs == 2
MaxTracks == 2
MaxEvents == 2
IdVarLen == 1
NumRequests == 2
NumFairRequests == 1

(***************************************************************************)
(* String helpers (String.prototype.trim / includes / startsWith).         *)
(***************************************************************************)
\* WhiteSpace and LineTerminator of ECMAScript, the characters removed by
\* String.prototype.trim and matched by \s: TAB, LF, VT, FF, CR, SP, NBSP,
\* the other space separators (Zs), LS, PS and U+FEFF
WhiteSpace ==
    { "\t", "\n", "U000B", "\f", "\r", " ", "U00A0", "U1680",
      "U2000", "U2001", "U2002", "U2003", "U2004", "U2005", "U2006", "U2007",
      "U2008", "U2009", "U200A", "U2028", "U2029", "U202F", "U205F", "U3000",
      "UFEFF" }

RECURSIVE TrimStart(_)
TrimStart(s) ==
    IF Len(s) > 0 /\ s[1] \in WhiteSpace THEN TrimStart(Tail(s)) ELSE s

RECURSIVE TrimEnd(_)
TrimEnd(s) ==
    IF Len(s) > 0 /\ s[Len(s)] \in WhiteSpace
    THEN TrimEnd(SubSeq(s, 1, Len(s) - 1))
    ELSE s

Trim(s) == TrimEnd(TrimStart(s))

MatchesAt(s, k, p) ==
    /\ k >= 1
    /\ k + Len(p) - 1 <= Len(s)
    /\ \A j \in 1..Len(p) : s[k + j - 1] = p[j]

Includes(s, p) == \E k \in 1..(Len(s) + 1) : MatchesAt(s, k, p)

StartsWith(s, p) == MatchesAt(s, 1, p)

RECURSIVE Join(_, _)
Join(ls, sep) ==
    IF Len(ls) = 0 THEN <<>>
    ELSE IF Len(ls) = 1 THEN ls[1]
    ELSE ls[1] \o sep \o Join(Tail(ls), sep)

(***************************************************************************)
(* formatTranscript                                                        *)
(***************************************************************************)
LINE_BREAK_INTERVAL_MS == 5000

SentenceEnd == {"KUTEN", "EXCL", "QUES"}

\* /[。！？]/.test(text)
HasSentenceEnd(text) == \E k \in 1..Len(text) : text[k] \in SentenceEnd

SegEnd(seg) == seg.startMs + seg.durationMs

\* mutant of PunctBranch: the gap rule is applied to the buffer first
PunctBranchGap(st, seg) ==
    LET commit == /\ st.lastEndMs > 0
                  /\ seg.startMs - st.lastEndMs > LINE_BREAK_INTERVAL_MS
                  /\ Len(Trim(st.currentLine)) > 0
        lines1 == IF commit THEN Append(st.lines, Trim(st.currentLine))
                            ELSE st.lines
        cur1   == IF commit THEN <<>> ELSE st.currentLine
    IN  [lines       |-> Append(lines1, Trim(cur1 \o seg.text)),
         currentLine |-> <<>>,
         lastEndMs   |-> SegEnd(seg)]

\* mutant of PunctBranch: the buffered text is lost when the line ends
PunctBranchDropBuffer(st, seg) ==
    [lines       |-> Append(st.lines, Trim(seg.text)),
     currentLine |-> <<>>,
     lastEndMs   |-> SegEnd(seg)]

\* the punctuation branch of the loop body (actions.ts:152-158)
PunctBranch(st, seg) ==
    [lines       |-> Append(st.lines, Trim(st.currentLine \o seg.text)),
     currentLine |-> <<>>,
     lastEndMs   |-> SegEnd(seg)]

\* mutant of PlainBranch: the end time forgets the duration
PlainBranchNoDuration(st, seg) ==
    LET commit == /\ st.lastEndMs > 0
                  /\ seg.startMs - st.lastEndMs > LINE_BREAK_INTERVAL_MS
                  /\ Len(Trim(st.currentLine)) > 0
        lines1 == IF commit THEN Append(st.lines, Trim(st.currentLine))
                            ELSE st.lines
        cur1   == IF commit THEN <<>> ELSE st.currentLine
        cur2   == IF Len(cur1) > 0 THEN cur1 \o <<" ">> \o seg.text
                                   ELSE seg.text
    IN  [lines |-> lines1, currentLine |-> cur2, lastEndMs |-> seg.startMs]

\* mutant of PlainBranch: a gap of exactly the threshold breaks the line
PlainBranchAtLeast(st, seg) ==
    LET commit == /\ st.lastEndMs > 0
                  /\ seg.startMs - st.lastEndMs >= LINE_BREAK_INTERVAL_MS
                  /\ Len(Trim(st.currentLine)) > 0
        lines1 == IF commit THEN Append(st.lines, Trim(st.currentLine))
                            ELSE st.lines
        cur1   == IF commit THEN <<>> ELSE st.currentLine
        cur2   == IF Len(cur1) > 0 THEN cur1 \o <<" ">> \o seg.text
                                   ELSE seg.text
    IN  [lines |-> lines1, currentLine |-> cur2, lastEndMs |-> SegEnd(seg)]

\* the rest of the loop body (actions.ts:160-175)
PlainBranch(st, seg) ==
    LET commit == /\ st.lastEndMs > 0
                  /\ seg.startMs - st.lastEndMs > LINE_BREAK_INTERVAL_MS
                  /\ Len(Trim(st.currentLine)) > 0
        lines1 == IF commit THEN Append(st.lines, Trim(st.currentLine))
                            ELSE st.lines
        cur1   == IF commit THEN <<>> ELSE st.currentLine
        cur2   == IF Len(cur1) > 0 THEN cur1 \o <<" ">> \o seg.text
                                   ELSE seg.text
    IN  [lines |-> lines1, currentLine |-> cur2, lastEndMs |-> SegEnd(seg)]

\* one iteration of the for loop
FormatStep(st, seg) ==
    IF HasSentenceEnd(seg.text) THEN PunctBranch(st, seg)
                                ELSE PlainBranch(st, seg)

\* mutant of FormatFinish: the rest of the buffer is committed unconditionally
FormatFinishUnchecked(st) ==
    Join(Append(st.lines, Trim(st.currentLine)), <<"\n", "\n">>)

\* after the loop (actions.ts:178-183)
FormatFinish(st) ==
    LET lines1 == IF Len(Trim(st.currentLine)) > 0
                  THEN Append(st.lines, Trim(st.currentLine))
                  ELSE st.lines
    IN  Join(lines1, <<"\n", "\n">>)

FormatStart == [lines |-> <<>>, currentLine |-> <<>>, lastEndMs |-> 0]

RECURSIVE FormatLoop(_, _)
FormatLoop(st, segs) ==
    IF Len(segs) = 0 THEN st
    ELSE FormatLoop(FormatStep(st, Head(segs)), Tail(segs))

formatTranscript(segs) ==
    IF Len(segs) = 0 THEN <<>> ELSE FormatFinish(FormatLoop(FormatStart, segs))

\* inputs of the formatter: its one caller (actions.ts:402) passes the
\* segments fetchTranscriptFromUrl pushed, whose texts are joins of trimmed
\* non-empty pieces (actions.ts:118-127): never empty, no outer white space
Hello == <<"H", "e", "l", "l", "o">>
WorldKuten == <<"w", "o", "r", "l", "d", "KUTEN">>

FmtTexts ==
    { <<"a">>, <<"a", " ", "b">>, <<"EXCL", "b">>, <<"b", "QUES">>,
      Hello, WorldKuten }

\* <<startMs, durationMs>>
FmtTimes == { <<0, 0>>, <<0, 1000>>, <<1200, 800>>, <<6000, 0>>, <<6001, 1000>> }

FmtSegments ==
    { [text |-> t, startMs |-> tm[1], durationMs |-> tm[2]] :
        t \in FmtTexts, tm \in FmtTimes }

SeqsUpTo(S, n) == UNION { [1..k -> S] : k \in 0..n }

FmtIdle ==
    /\ segments = <<>> /\ i = 0 /\ lines = <<>> /\ currentLine = <<>>
    /\ lastEndMs = 0 /\ fmtPc = "idle" /\ fmtResult = <<>>

FmtInit ==
    /\ segments \in SeqsUpTo(FmtSegments, MaxSegs)
    /\ i = 0 /\ lines = <<>> /\ currentLine = <<>> /\ lastEndMs = 0
    /\ fmtPc = "start" /\ fmtResult = <<>>

FmtState == [lines |-> lines, currentLine |-> currentLine, lastEndMs |-> lastEndMs]

\* if (segments.length === 0) return "";
FormatReturnEmpty ==
    /\ fmtPc = "start" /\ Len(segments) = 0
    /\ fmtPc' = "done" /\ fmtResult' = <<>>
    /\ UNCHANGED <<segments, i, lines, currentLine, lastEndMs, selVars, urlVars, prsVars, trVars, clsVars, srvVars>>

FormatEnterLoop ==
    /\ fmtPc = "start" /\ Len(segments) > 0
    /\ fmtPc' = "loop"
    /\ UNCHANGED <<segments, i, lines, currentLine, lastEndMs, fmtResult, selVars, urlVars, prsVars, trVars, clsVars, srvVars>>

FormatPunct ==
    /\ fmtPc = "loop" /\ i < Len(segments)
    /\ HasSentenceEnd(segments[i + 1].text)
    /\ LET st == FormatStep(FmtState, segments[i + 1])
       IN  /\ lines' = st.lines
           /\ currentLine' = st.currentLine
           /\ lastEndMs' = st.lastEndMs
    /\ i' = i + 1
    /\ UNCHANGED <<segments, fmtPc, fmtResult, selVars, urlVars, prsVars, trVars, clsVars, srvVars>>

FormatPlain ==
    /\ fmtPc = "loop" /\ i < Len(segments)
    /\ ~HasSentenceEnd(segments[i + 1].text)
    /\ LET st == FormatStep(FmtState, segments[i + 1])
       IN  /\ lines' = st.lines
           /\ currentLine' = st.currentLine
           /\ lastEndMs' = st.lastEndMs
    /\ i' = i + 1
    /\ UNCHANGED <<segments, fmtPc, fmtResult, selVars, urlVars, prsVars, trVars, clsVars, srvVars>>

FormatReturn ==
    /\ fmtPc = "loop" /\ i = Len(segments)
    /\ fmtPc' = "done"
    /\ fmtResult' = FormatFinish(FmtState)
    /\ UNCHANGED <<segments, i, lines, currentLine, lastEndMs, selVars, urlVars, prsVars, trVars, clsVars, srvVars>>

(***************************************************************************)
(* selectBestCaptionTrack                                                  *)
(***************************************************************************)
NULL == [null |-> TRUE]

IsManual(t) == StartsWith(t.vss_id, <<".">>)
IsAuto(t) == StartsWith(t.vss_id, <<"a", ".">>) \/ t.kind = "asr"

\* tracks.find(...): the first element satisfying the predicate, or NULL
FirstAt(ts, hits) ==
    IF hits = {} THEN NULL
    ELSE ts[CHOOSE k \in hits : \A j \in hits : k <= j]

\* actions.ts:260-262
FindManual(ts, lang) ==
    FirstAt(ts, { k \in 1..Len(ts) :
                    ts[k].language_code = lang /\ IsManual(ts[k]) })

\* actions.ts:266-270
FindAuto(ts, lang) ==
    FirstAt(ts, { k \in 1..Len(ts) :
                    ts[k].language_code = lang /\ IsAuto(ts[k]) })

\* tracks[0] || null, with the mutant that takes the last track
LastOrNull(ts) == IF Len(ts) > 0 THEN ts[Len(ts)] ELSE NULL

FirstOrNull(ts) == IF Len(ts) > 0 THEN ts[1] ELSE NULL

\* mutant: within a language the automatic track is looked for first
RECURSIVE selectAutoFirst(_, _)
selectAutoFirst(ts, langs) ==
    IF Len(langs) = 0 THEN FirstOrNull(ts)
    ELSE LET manualTrack == FindManual(ts, Head(langs))
             autoTrack == FindAuto(ts, Head(langs))
         IN  IF autoTrack # NULL THEN autoTrack
             ELSE IF manualTrack # NULL THEN manualTrack
             ELSE selectAutoFirst(ts, Tail(langs))

\* mutant of selectBestCaptionTrack: the first track, whatever its language
selectFirstTrack(ts, langs) == FirstOrNull(ts)

RECURSIVE selectBestCaptionTrack(_, _)
selectBestCaptionTrack(ts, langs) ==
    IF Len(langs) = 0
    THEN FirstOrNull(ts)
    ELSE LET manualTrack == FindManual(ts, Head(langs))
             autoTrack == FindAuto(ts, Head(langs))
         IN  IF manualTrack # NULL THEN manualTrack
             ELSE IF autoTrack # NULL THEN autoTrack
             ELSE selectBestCaptionTrack(ts, Tail(langs))

\* inputs of the selector
SelLangs == {"ja", "en", "fr"}
SelVssIds == { <<".", "x">>, <<"a", ".", "x">>, <<"x">> }
SelKinds == {"asr", "none"}
SelUrls == { <<"u">>, <<>> }

SelTracks ==
    { [language_code |-> l, vss_id |-> v, kind |-> k, base_url |-> u] :
        l \in SelLangs, v \in SelVssIds, k \in SelKinds, u \in SelUrls }

SelPreferences == { <<"ja", "en">>, <<"en", "ja">>, <<"ja">>, <<>> }

SelIdle ==
    /\ tracks = <<>> /\ preferredLangs = <<>> /\ selPc = "idle" /\ selected = NULL

SelInit ==
    /\ tracks \in SeqsUpTo(SelTracks, MaxTracks)
    /\ preferredLangs \in SelPreferences
    /\ selPc = "start" /\ selected = NULL

SelectReturn ==
    /\ selPc = "start"
    /\ selPc' = "done"
    /\ selected' = selectBestCaptionTrack(tracks, preferredLangs)
    /\ UNCHANGED <<tracks, preferredLangs, fmtVars, urlVars, prsVars, trVars, clsVars, srvVars>>

(***************************************************************************)
(* extractVideoId and isValidYouTubeUrl                                    *)
(***************************************************************************)
\* an optional string: None is null, Some(s) the string s
None == <<>>
Some(s) == <<s>>

LowerCase == <<"a", "b", "c", "d", "e", "f", "g", "h", "i", "j", "k", "l", "m", "n", "o", "p", "q", "r", "s", "t", "u", "v", "w", "x", "y", "z">>
UpperCase == <<"A", "B", "C", "D", "E", "F", "G", "H", "I", "J", "K", "L", "M", "N", "O", "P", "Q", "R", "S", "T", "U", "V", "W", "X", "Y", "Z">>
Digits == {"0", "1", "2", "3", "4", "5", "6", "7", "8", "9"}
Letters == { LowerCase[k] : k \in 1..Len(LowerCase) }
             \cup { UpperCase[k] : k \in 1..Len(UpperCase) }

ToLower(c) ==
    IF \E k \in 1..Len(UpperCase) : UpperCase[k] = c
    THEN LowerCase[CHOOSE k \in 1..Len(UpperCase) : UpperCase[k] = c]
    ELSE c

ToLowerStr(s) == [k \in 1..Len(s) |-> ToLower(s[k])]

\* the length of the identifier, {11} in the four patterns
ID_LENGTH == 11

\* [a-zA-Z0-9_-]
IdChars == Letters \cup Digits \cup {"_", "-"}

\* the literal parts of the four patterns, in the order of the array
Patterns ==
    << <<"y", "o", "u", "t", "u", "b", "e", ".", "c", "o", "m", "/", "w", "a", "t", "c", "h", "?", "v", "=">>,
       <<"y", "o", "u", "t", "u", ".", "b", "e", "/">>,
       <<"y", "o", "u", "t", "u", "b", "e", ".", "c", "o", "m", "/", "e", "m", "b", "e", "d", "/">>,
       <<"y", "o", "u", "t", "u", "b", "e", ".", "c", "o", "m", "/", "v", "/">> >>

\* a match of /(?:lit)([a-zA-Z0-9_-]{11})/ that starts at position k
PatternAt(s, k, lit) ==
    /\ MatchesAt(s, k, lit)
    /\ k + Len(lit) + ID_LENGTH - 1 <= Len(s)
    /\ \A j \in 0..(ID_LENGTH - 1) : s[k + Len(lit) + j] \in IdChars

\* mutant of MatchPattern: the capture group is one character short
MatchPatternShort(s, lit) ==
    LET starts == { k \in 1..Len(s) : PatternAt(s, k, lit) }
    IN  IF starts = {} THEN None
        ELSE LET k == CHOOSE k0 \in starts : \A k1 \in starts : k0 <= k1
             IN  Some(SubSeq(s, k + Len(lit), k + Len(lit) + ID_LENGTH - 2))

\* url.match(pattern): the capture group of the leftmost match, or None
MatchPattern(s, lit) ==
    LET starts == { k \in 1..Len(s) : PatternAt(s, k, lit) }
    IN  IF starts = {} THEN None
        ELSE LET k == CHOOSE k0 \in starts : \A k1 \in starts : k0 <= k1
             IN  Some(SubSeq(s, k + Len(lit), k + Len(lit) + ID_LENGTH - 1))

RECURSIVE FirstMatch(_, _)
FirstMatch(s, pats) ==
    IF Len(pats) = 0 THEN None
    ELSE IF MatchPattern(s, Head(pats)) # None THEN MatchPattern(s, Head(pats))
    ELSE FirstMatch(s, Tail(pats))

extractVideoId(u) ==
    IF Len(u) = 0 THEN None ELSE FirstMatch(u, Patterns)

(***************************************************************************)
(* new URL(url).hostname for a URL without base (youtube-utils.ts:35),     *)
(* after the URL Standard: the input is stripped of leading and trailing   *)
(* C0 controls and spaces and of every tab and newline; then come the      *)
(* scheme, for a special scheme any run of slashes and backslashes (two    *)
(* at most for file), and the authority up to the first of / \ ? #, less   *)
(* the credentials before the last @ and the port after the first colon    *)
(* outside brackets.  The host of a special URL is percent-decoded, mapped *)
(* to an ASCII domain (lower case, Punycode), tested for forbidden code    *)
(* points, and read as an IPv4 address when it ends in a number; a host in *)
(* brackets is an IPv6 address; the host of another URL is opaque.  ok is  *)
(* FALSE where the constructor throws.                                     *)
(*                                                                         *)
(* A string is a sequence of characters.  An ASCII character is written   *)
(* as itself, or as the token of AsciiChars where TLA+ has no literal for  *)
(* it; another character is written as the token U and its code point in   *)
(* four to six upper-case hexadecimal digits ("U3042", "U1D432"), or as    *)
(* one of the words of NonAsciiChars.  Code points are integers.           *)
(***************************************************************************)
\* the ASCII characters: AsciiChars[c + 1] is the character of code point c
AsciiChars ==
    <<
       "U0000", "U0001", "U0002", "U0003", "U0004", "U0005", "U0006", "U0007",
       "U0008", "\t", "\n", "U000B", "\f", "\r", "U000E", "U000F",
       "U0010", "U0011", "U0012", "U0013", "U0014", "U0015", "U0016", "U0017",
       "U0018", "U0019", "U001A", "U001B", "U001C", "U001D", "U001E", "U001F",
       " ", "!", "\"", "#", "$", "%", "&", "'",
       "(", ")", "*", "+", ",", "-", ".", "/",
       "0", "1", "2", "3", "4", "5", "6", "7",
       "8", "9", ":", ";", "<", "=", ">", "?",
       "@", "A", "B", "C", "D", "E", "F", "G",
       "H", "I", "J", "K", "L", "M", "N", "O",
       "P", "Q", "R", "S", "T", "U", "V", "W",
       "X", "Y", "Z", "[", "\\", "]", "^", "_",
       "U0060", "a", "b", "c", "d", "e", "f", "g",
       "h", "i", "j", "k", "l", "m", "n", "o",
       "p", "q", "r", "s", "t", "u", "v", "w",
       "x", "y", "z", "{", "|", "}", "~", "U007F"
    >>

\* the characters of the model that are named by a word, with their code
\* points
NonAsciiChars ==
    << <<"KUTEN", 12290>>, <<"EXCL", 65281>>, <<"FWLP", 65288>>,
       <<"FWRP", 65289>>, <<"QUES", 65311>> >>

HexDigits ==
    <<"0", "1", "2", "3", "4", "5", "6", "7", "8", "9", "A", "B", "C", "D", "E", "F">>

\* the value of the hexadecimal digits of the token c from position k on,
\* after the value acc; -1 when a character is no digit
RECURSIVE HexTokenValue(_, _, _)
HexTokenValue(c, k, acc) ==
    IF k > Len(c) THEN acc
    ELSE IF \A d \in 1..16 : HexDigits[d] # SubSeq(c, k, k) THEN -1
    ELSE HexTokenValue(c, k + 1,
            16 * acc + (CHOOSE d \in 1..16 : HexDigits[d] = SubSeq(c, k, k)) - 1)

\* the code point a token "U" and 4 to 6 hexadecimal digits names; U+FFFD
\* when it names none (a surrogate, a value over 10FFFF)
TokenCodePoint(v) ==
    IF v < 0 \/ v > 1114111 \/ (v >= 55296 /\ v <= 57343) THEN 65533 ELSE v

\* the code point of a character; U+FFFD for a token that is no character
CodePoint(c) ==
    IF \E k \in 1..Len(AsciiChars) : AsciiChars[k] = c
    THEN (CHOOSE k \in 1..Len(AsciiChars) : AsciiChars[k] = c) - 1
    ELSE IF \E k \in 1..Len(NonAsciiChars) : NonAsciiChars[k][1] = c
    THEN NonAsciiChars[CHOOSE k \in 1..Len(NonAsciiChars) : NonAsciiChars[k][1] = c][2]
    ELSE IF Len(c) >= 5 /\ Len(c) <= 7 /\ SubSeq(c, 1, 1) = "U"
    THEN TokenCodePoint(HexTokenValue(c, 2, 0))
    ELSE 65533

\* the string of a sequence of ASCII code points
AsciiStr(cps) == [k \in 1..Len(cps) |-> AsciiChars[cps[k] + 1]]

RECURSIVE Flatten(_)
Flatten(ss) == IF Len(ss) = 0 THEN <<>> ELSE Head(ss) \o Flatten(Tail(ss))

\* the least position >= from whose character is in S, or Len(s) + 1
IndexOfAny(s, from, S) ==
    LET hits == { k \in from..Len(s) : s[k] \in S }
    IN  IF hits = {} THEN Len(s) + 1
        ELSE CHOOSE k \in hits : \A j \in hits : k <= j

\* the least position >= from whose character is not in S, or Len(s) + 1
IndexOfNot(s, from, S) ==
    LET hits == { k \in from..Len(s) : s[k] \notin S }
    IN  IF hits = {} THEN Len(s) + 1
        ELSE CHOOSE k \in hits : \A j \in hits : k <= j

LastIndexOf(s, c) ==
    LET hits == { k \in 1..Len(s) : s[k] = c }
    IN  IF hits = {} THEN 0
        ELSE CHOOSE k \in hits : \A j \in hits : k >= j

\* strictly split s on the separator d
RECURSIVE SplitOn(_, _)
SplitOn(s, d) ==
    LET k == IndexOfAny(s, 1, {d})
    IN  IF k > Len(s) THEN <<s>>
        ELSE <<SubSeq(s, 1, k - 1)>> \o SplitOn(SubSeq(s, k + 1, Len(s)), d)

RECURSIVE JoinWith(_, _)
JoinWith(parts, d) ==
    IF Len(parts) = 0 THEN <<>>
    ELSE IF Len(parts) = 1 THEN parts[1]
    ELSE parts[1] \o <<d>> \o JoinWith(Tail(parts), d)

\* the decimal digits of a natural number, as code points
RECURSIVE DecimalCodes(_)
DecimalCodes(n) ==
    IF n < 10 THEN <<48 + n>> ELSE DecimalCodes(n \div 10) \o <<48 + (n % 10)>>

\* hexadecimal digits, as code points
IsHexCode(cp) ==
    \/ cp >= 48 /\ cp <= 57
    \/ cp >= 65 /\ cp <= 70
    \/ cp >= 97 /\ cp <= 102

HexCodeValue(cp) ==
    IF cp <= 57 THEN cp - 48 ELSE IF cp <= 70 THEN cp - 55 ELSE cp - 87

UpperHexCode(v) == IF v < 10 THEN 48 + v ELSE 55 + v
LowerHexCode(v) == IF v < 10 THEN 48 + v ELSE 87 + v

RECURSIVE LowerHexCodes(_)
LowerHexCodes(n) ==
    IF n < 16 THEN <<LowerHexCode(n)>>
    ELSE LowerHexCodes(n \div 16) \o <<LowerHexCode(n % 16)>>

\* UTF-8
Utf8Encode(cp) ==
    IF cp < 128 THEN <<cp>>
    ELSE IF cp < 2048 THEN <<192 + (cp \div 64), 128 + (cp % 64)>>
    ELSE IF cp < 65536
    THEN <<224 + (cp \div 4096), 128 + ((cp \div 64) % 64), 128 + (cp % 64)>>
    ELSE <<240 + (cp \div 262144), 128 + ((cp \div 4096) % 64),
           128 + ((cp \div 64) % 64), 128 + (cp % 64)>>

IsContinuation(b) == b >= 128 /\ b <= 191

\* UTF-8 decode, an ill-formed sequence giving U+FFFD
RECURSIVE Utf8Decode(_)
Utf8Decode(b) ==
    IF Len(b) = 0 THEN <<>>
    ELSE LET rest(n) == SubSeq(b, n + 1, Len(b))
         IN  IF b[1] < 128 THEN <<b[1]>> \o Utf8Decode(rest(1))
             ELSE IF /\ b[1] >= 194 /\ b[1] <= 223
                     /\ Len(b) >= 2 /\ IsContinuation(b[2])
             THEN <<(b[1] - 192) * 64 + (b[2] - 128)>> \o Utf8Decode(rest(2))
             ELSE IF /\ b[1] >= 224 /\ b[1] <= 239
                     /\ Len(b) >= 3 /\ IsContinuation(b[2]) /\ IsContinuation(b[3])
                     /\ (b[1] = 224 => b[2] >= 160)
                     /\ (b[1] = 237 => b[2] <= 159)
             THEN <<(b[1] - 224) * 4096 + (b[2] - 128) * 64 + (b[3] - 128)>>
                  \o Utf8Decode(rest(3))
             ELSE IF /\ b[1] >= 240 /\ b[1] <= 244
                     /\ Len(b) >= 4 /\ IsContinuation(b[2]) /\ IsContinuation(b[3])
                     /\ IsContinuation(b[4])
                     /\ (b[1] = 240 => b[2] >= 144)
                     /\ (b[1] = 244 => b[2] <= 143)
             THEN <<(b[1] - 240) * 262144 + (b[2] - 128) * 4096
                    + (b[3] - 128) * 64 + (b[4] - 128)>>
                  \o Utf8Decode(rest(4))
             ELSE <<65533>> \o Utf8Decode(rest(1))

\* percent-decode of the UTF-8 encoding of s: a sequence of bytes
RECURSIVE PercentDecode(_)
PercentDecode(s) ==
    IF Len(s) = 0 THEN <<>>
    ELSE IF /\ s[1] = "%" /\ Len(s) >= 3
            /\ IsHexCode(CodePoint(s[2])) /\ IsHexCode(CodePoint(s[3]))
    THEN <<16 * HexCodeValue(CodePoint(s[2])) + HexCodeValue(CodePoint(s[3]))>>
         \o PercentDecode(SubSeq(s, 4, Len(s)))
    ELSE Utf8Encode(CodePoint(s[1])) \o PercentDecode(Tail(s))

\* "%XX" for a byte
PercentEncodeByte(b) == <<37, UpperHexCode(b \div 16), UpperHexCode(b % 16)>>

(* Punycode (RFC 3492) over code points                                    *)
RECURSIVE PunyAdaptLoop(_, _)
PunyAdaptLoop(delta, k) ==
    IF delta > 455 THEN PunyAdaptLoop(delta \div 35, k + 36)
    ELSE k + ((36 * delta) \div (delta + 38))

PunyAdapt(delta, numpoints, first) ==
    LET d == IF first THEN delta \div 700 ELSE delta \div 2
    IN  PunyAdaptLoop(d + (d \div numpoints), 0)

\* the threshold of position k under a bias
PunyThreshold(k, bias) ==
    IF k <= bias THEN 1 ELSE IF k >= bias + 26 THEN 26 ELSE k - bias

\* digits: a..z are 0..25, 0..9 are 26..35
PunyDigitCode(d) == IF d < 26 THEN 97 + d ELSE 22 + d

\* the value of a digit; a capital letter is none
PunyDigitValue(cp) ==
    IF cp >= 48 /\ cp <= 57 THEN cp - 22
    ELSE IF cp >= 97 /\ cp <= 122 THEN cp - 97
    ELSE -1

RECURSIVE PunyEncodeInt(_, _, _)
PunyEncodeInt(q, k, bias) ==
    LET t == PunyThreshold(k, bias)
    IN  IF q < t THEN <<PunyDigitCode(q)>>
        ELSE <<PunyDigitCode(t + ((q - t) % (36 - t)))>>
             \o PunyEncodeInt((q - t) \div (36 - t), k + 36, bias)

\* one pass over the label for the code point n
RECURSIVE PunyEncodePass(_, _, _, _, _)
PunyEncodePass(label, j, n, b, st) ==
    IF j > Len(label) THEN st
    ELSE IF label[j] < n
    THEN PunyEncodePass(label, j + 1, n, b, [st EXCEPT !.delta = @ + 1])
    ELSE IF label[j] = n
    THEN PunyEncodePass(label, j + 1, n, b,
            [delta |-> 0,
             bias  |-> PunyAdapt(st.delta, st.h + 1, st.h = b),
             h     |-> st.h + 1,
             out   |-> st.out \o PunyEncodeInt(st.delta, 36, st.bias)])
    ELSE PunyEncodePass(label, j + 1, n, b, st)

RECURSIVE PunyEncodeLoop(_, _, _, _)
PunyEncodeLoop(label, n, b, st) ==
    IF st.h >= Len(label) THEN st.out
    ELSE LET above == { label[j] : j \in 1..Len(label) } \cap (n..1114111)
             m == CHOOSE x \in above : \A y \in above : x <= y
             st1 == [st EXCEPT !.delta = @ + (m - n) * (st.h + 1)]
             st2 == PunyEncodePass(label, 1, m, b, st1)
         IN  PunyEncodeLoop(label, m + 1, b, [st2 EXCEPT !.delta = @ + 1])

PunyEncode(label) ==
    LET basic == SelectSeq(label, LAMBDA c : c < 128)
        b == Len(basic)
    IN  PunyEncodeLoop(label, 128, b,
            [delta |-> 0, bias |-> 72, h |-> b,
             out |-> IF b > 0 THEN basic \o <<45>> ELSE <<>>])

PunyFailure == [ok |-> FALSE, out |-> <<>>]

\* one variable-length integer read from position p and added to idx, in
\* 32-bit arithmetic: a sum or a weight over 2^31 - 1 is an error
RECURSIVE PunyDecodeInt(_, _, _, _, _, _)
PunyDecodeInt(s, p, idx, w, k, bias) ==
    IF p > Len(s) THEN [ok |-> FALSE, i |-> 0, p |-> p]
    ELSE IF PunyDigitValue(s[p]) < 0 THEN [ok |-> FALSE, i |-> 0, p |-> p]
    ELSE IF PunyDigitValue(s[p]) > (2147483647 - idx) \div w
    THEN [ok |-> FALSE, i |-> 0, p |-> p]
    ELSE IF PunyDigitValue(s[p]) < PunyThreshold(k, bias)
    THEN [ok |-> TRUE, i |-> idx + PunyDigitValue(s[p]) * w, p |-> p + 1]
    ELSE IF w > 2147483647 \div (36 - PunyThreshold(k, bias))
    THEN [ok |-> FALSE, i |-> 0, p |-> p]
    ELSE PunyDecodeInt(s, p + 1, idx + PunyDigitValue(s[p]) * w,
                       w * (36 - PunyThreshold(k, bias)), k + 36, bias)

RECURSIVE PunyDecodeLoop(_, _, _, _, _, _)
\* the code point n1 is inserted into out at position pos + 1
PunyDecodeInsert(s, idx, out, r, n1, pos) ==
    IF n1 < 128 THEN PunyFailure
    ELSE PunyDecodeLoop(s, r.p, n1, pos + 1,
                        PunyAdapt(r.i - idx, Len(out) + 1, idx = 0),
                        SubSeq(out, 1, pos) \o <<n1>> \o SubSeq(out, pos + 1, Len(out)))

\* the integer read as r gives the next code point and its position
PunyDecodeStep(s, n, idx, out, r) ==
    IF ~r.ok THEN PunyFailure
    ELSE IF r.i \div (Len(out) + 1) > 2147483647 - n THEN PunyFailure
    ELSE PunyDecodeInsert(s, idx, out, r,
                          n + (r.i \div (Len(out) + 1)), r.i % (Len(out) + 1))

PunyDecodeLoop(s, p, n, idx, bias, out) ==
    IF p > Len(s) THEN [ok |-> TRUE, out |-> out]
    ELSE PunyDecodeStep(s, n, idx, out, PunyDecodeInt(s, p, idx, 1, 36, bias))

\* the code points before the last "-" are copied and the "-" is consumed,
\* also when it is the first character
PunyDecodeFrom(s, d) ==
    IF d = 0 THEN PunyDecodeLoop(s, 1, 128, 0, 72, <<>>)
    ELSE IF \E k \in 1..(d - 1) : s[k] >= 128 THEN PunyFailure
    ELSE PunyDecodeLoop(s, d + 1, 128, 0, 72, SubSeq(s, 1, d - 1))

PunyDecode(s) == PunyDecodeFrom(s, LastIndexOf(s, 45))

(* IDNA: domain to ASCII as the URL parser of Node (ada) computes it: UTS 46*)
(* with CheckHyphens, VerifyDnsLength and UseSTD3ASCIIRules off, non-       *)
(* transitional, with the checks of combining marks, joiners and Bidi made  *)
(* label by label                                                           *)
\* the IDNA mapping table of UTS 46 (Unicode 15.0), UseSTD3ASCIIRules = false,
\* non-transitional: an entry
\* <<first, status, mapping>> holds from its first code point up to the next
\* entry; status 0 is ignored, 1 valid, 2 disallowed, 3 mapped
IdnaTable ==
    << <<0, 1, <<>>>>, <<65, 3, <<97>>>>, <<66, 3, <<98>>>>, <<67, 3, <<99>>>>,
      <<68, 3, <<100>>>>, <<69, 3, <<101>>>>, <<70, 3, <<102>>>>, <<71, 3, <<103>>>>,
      <<72, 3, <<104>>>>, <<73, 3, <<105>>>>, <<74, 3, <<106>>>>, <<75, 3, <<107>>>>,
      <<76, 3, <<108>>>>, <<77, 3, <<109>>>>, <<78, 3, <<110>>>>, <<79, 3, <<111>>>>,
      <<80, 3, <<112>>>>, <<81, 3, <<113>>>>, <<82, 3, <<114>>>>, <<83, 3, <<115>>>>,
      <<84, 3, <<116>>>>, <<85, 3, <<117>>>>, <<86, 3, <<118>>>>, <<87, 3, <<119>>>>,
      <<88, 3, <<120>>>>, <<89, 3, <<121>>>>, <<90, 3, <<122>>>>, <<91, 1, <<>>>>,
      <<128, 2, <<>>>>, <<160, 3, <<32>>>>, <<161, 1, <<>>>>, <<168, 3, <<32, 776>>>>,
      <<169, 1, <<>>>>, <<170, 3, <<97>>>>, <<171, 1, <<>>>>, <<173, 0, <<>>>>,
      <<174, 1, <<>>>>, <<175, 3, <<32, 772>>>>, <<176, 1, <<>>>>, <<178, 3, <<50>>>>,
      <<179, 3, <<51>>>>, <<180, 3, <<32, 769>>>>, <<181, 3, <<956>>>>, <<182, 1, <<>>>>,
      <<184, 3, <<32, 807>>>>, <<185, 3, <<49>>>>, <<186, 3, <<111>>>>, <<187, 1, <<>>>>,
      <<188, 3, <<49, 8260, 52>>>>, <<189, 3, <<49, 8260, 50>>>>, <<190, 3, <<51, 8260, 52>>>>,
      <<191, 1, <<>>>>, <<192, 3, <<224>>>>, <<193, 3, <<225>>>>, <<194, 3, <<226>>>>,
      <<195, 3, <<227>>>>, <<196, 3, <<228>>>>, <<197, 3, <<229>>>>, <<198, 3, <<230>>>>,
      <<199, 3, <<231>>>>, <<200, 3, <<232>>>>, <<201, 3, <<233>>>>, <<202, 3, <<234>>>>,
      <<203, 3, <<235>>>>, <<204, 3, <<236>>>>, <<205, 3, <<237>>>>, <<206, 3, <<238>>>>,
      <<207, 3, <<239>>>>, <<208, 3, <<240>>>>, <<209, 3, <<241>>>>, <<210, 3, <<242>>>>,
      <<211, 3, <<243>>>>, <<212, 3, <<244>>>>, <<213, 3, <<245>>>>, <<214, 3, <<246>>>>,
      <<215, 1, <<>>>>, <<216, 3, <<248>>>>, <<217, 3, <<249>>>>, <<218, 3, <<250>>>>,
      <<219, 3, <<251>>>>, <<220, 3, <<252>>>>, <<221, 3, <<253>>>>, <<222, 3, <<254>>>>,
      <<223, 1, <<>>>>, <<256, 3, <<257>>>>, <<257, 1, <<>>>>, <<258, 3, <<259>>>>,
      <<259, 1, <<>>>>, <<260, 3, <<261>>>>, <<261, 1, <<>>>>, <<262, 3, <<263>>>>,
      <<263, 1, <<>>>>, <<264, 3, <<265>>>>, <<265, 1, <<>>>>, <<266, 3, <<267>>>>,
      <<267, 1, <<>>>>, <<268, 3, <<269>>>>, <<269, 1, <<>>>>, <<270, 3, <<271>>>>,
      <<271, 1, <<>>>>, <<272, 3, <<273>>>>, <<273, 1, <<>>>>, <<274, 3, <<275>>>>,
      <<275, 1, <<>>>>, <<276, 3, <<277>>>>, <<277, 1, <<>>>>, <<278, 3, <<279>>>>,
      <<279, 1, <<>>>>, <<280, 3, <<281>>>>, <<281, 1, <<>>>>, <<282, 3, <<283>>>>,
      <<283, 1, <<>>>>, <<284, 3, <<285>>>>, <<285, 1, <<>>>>, <<286, 3, <<287>>>>,
      <<287, 1, <<>>>>, <<288, 3, <<289>>>>, <<289, 1, <<>>>>, <<290, 3, <<291>>>>,
      <<291, 1, <<>>>>, <<292, 3, <<293>>>>, <<293, 1, <<>>>>, <<294, 3, <<295>>>>,
      <<295, 1, <<>>>>, <<296, 3, <<297>>>>, <<297, 1, <<>>>>, <<298, 3, <<299>>>>,
      <<299, 1, <<>>>>, <<300, 3, <<301>>>>, <<301, 1, <<>>>>, <<302, 3, <<303>>>>,
      <<303, 1, <<>>>>, <<304, 3, <<105, 775>>>>, <<305, 1, <<>>>>, <<306, 3, <<105, 106>>>>,
      <<308, 3, <<309>>>>, <<309, 1, <<>>>>, <<310, 3, <<311>>>>, <<311, 1, <<>>>>,
      <<313, 3, <<314>>>>, <<314, 1, <<>>>>, <<315, 3, <<316>>>>, <<316, 1, <<>>>>,
      <<317, 3, <<318>>>>, <<318, 1, <<>>>>, <<319, 3, <<108, 183>>>>, <<321, 3, <<322>>>>,
      <<322, 1, <<>>>>, <<323, 3, <<324>>>>, <<324, 1, <<>>>>, <<325, 3, <<326>>>>,
      <<326, 1, <<>>>>, <<327, 3, <<328>>>>, <<328, 1, <<>>>>, <<329, 3, <<700, 110>>>>,
      <<330, 3, <<331>>>>, <<331, 1, <<>>>>, <<332, 3, <<333>>>>, <<333, 1, <<>>>>,
      <<334, 3, <<335>>>>, <<335, 1, <<>>>>, <<336, 3, <<337>>>>, <<337, 1, <<>>>>,
      <<338, 3, <<339>>>>, <<339, 1, <<>>>>, <<340, 3, <<341>>>>, <<341, 1, <<>>>>,
      <<342, 3, <<343>>>>, <<343, 1, <<>>>>, <<344, 3, <<345>>>>, <<345, 1, <<>>>>,
      <<346, 3, <<347>>>>, <<347, 1, <<>>>>, <<348, 3, <<349>>>>, <<349, 1, <<>>>>,
      <<350, 3, <<351>>>>, <<351, 1, <<>>>>, <<352, 3, <<353>>>>, <<353, 1, <<>>>>,
      <<354, 3, <<355>>>>, <<355, 1, <<>>>>, <<356, 3, <<357>>>>, <<357, 1, <<>>>>,
      <<358, 3, <<359>>>>, <<359, 1, <<>>>>, <<360, 3, <<361>>>>, <<361, 1, <<>>>>,
      <<362, 3, <<363>>>>, <<363, 1, <<>>>>, <<364, 3, <<365>>>>, <<365, 1, <<>>>>,
      <<366, 3, <<367>>>>, <<367, 1, <<>>>>, <<368, 3, <<369>>>>, <<369, 1, <<>>>>,
      <<370, 3, <<371>>>>, <<371, 1, <<>>>>, <<372, 3, <<373>>>>, <<373, 1, <<>>>>,
      <<374, 3, <<375>>>>, <<375, 1, <<>>>>, <<376, 3, <<255>>>>, <<377, 3, <<378>>>>,
      <<378, 1, <<>>>>, <<379, 3, <<380>>>>, <<380, 1, <<>>>>, <<381, 3, <<382>>>>,
      <<382, 1, <<>>>>, <<383, 3, <<115>>>>, <<384, 1, <<>>>>, <<385, 3, <<595>>>>,
      <<386, 3, <<387>>>>, <<387, 1, <<>>>>, <<388, 3, <<389>>>>, <<389, 1, <<>>>>,
      <<390, 3, <<596>>>>, <<391, 3, <<392>>>>, <<392, 1, <<>>>>, <<393, 3, <<598>>>>,
      <<394, 3, <<599>>>>, <<395, 3, <<396>>>>, <<396, 1, <<>>>>, <<398, 3, <<477>>>>,
      <<399, 3, <<601>>>>, <<400, 3, <<603>>>>, <<401, 3, <<402>>>>, <<402, 1, <<>>>>,
      <<403, 3, <<608>>>>, <<404, 3, <<611>>>>, <<405, 1, <<>>>>, <<406, 3, <<617>>>>,
      <<407, 3, <<616>>>>, <<408, 3, <<409>>>>, <<409, 1, <<>>>>, <<412, 3, <<623>>>>,
      <<413, 3, <<626>>>>, <<414, 1, <<>>>>, <<415, 3, <<629>>>>, <<416, 3, <<417>>>>,
      <<417, 1, <<>>>>, <<418, 3, <<419>>>>, <<419, 1, <<>>>>, <<420, 3, <<421>>>>,
      <<421, 1, <<>>>>, <<422, 3, <<640>>>>, <<423, 3, <<424>>>>, <<424, 1, <<>>>>,
      <<425, 3, <<643>>>>, <<426, 1, <<>>>>, <<428, 3, <<429>>>>, <<429, 1, <<>>>>,
      <<430, 3, <<648>>>>, <<431, 3, <<432>>>>, <<432, 1, <<>>>>, <<433, 3, <<650>>>>,
      <<434, 3, <<651>>>>, <<435, 3, <<436>>>>, <<436, 1, <<>>>>, <<437, 3, <<438>>>>,
      <<438, 1, <<>>>>, <<439, 3, <<658>>>>, <<440, 3, <<441>>>>, <<441, 1, <<>>>>,
      <<444, 3, <<445>>>>, <<445, 1, <<>>>>, <<452, 3, <<100, 382>>>>, <<455, 3, <<108, 106>>>>,
      <<458, 3, <<110, 106>>>>, <<461, 3, <<462>>>>, <<462, 1, <<>>>>, <<463, 3, <<464>>>>,
      <<464, 1, <<>>>>, <<465, 3, <<466>>>>, <<466, 1, <<>>>>, <<467, 3, <<468>>>>,
      <<468, 1, <<>>>>, <<469, 3, <<470>>>>, <<470, 1, <<>>>>, <<471, 3, <<472>>>>,
      <<472, 1, <<>>>>, <<473, 3, <<474>>>>, <<474, 1, <<>>>>, <<475, 3, <<476>>>>,
      <<476, 1, <<>>>>, <<478, 3, <<479>>>>, <<479, 1, <<>>>>, <<480, 3, <<481>>>>,
      <<481, 1, <<>>>>, <<482, 3, <<483>>>>, <<483, 1, <<>>>>, <<484, 3, <<485>>>>,
      <<485, 1, <<>>>>, <<486, 3, <<487>>>>, <<487, 1, <<>>>>, <<488, 3, <<489>>>>,
      <<489, 1, <<>>>>, <<490, 3, <<491>>>>, <<491, 1, <<>>>>, <<492, 3, <<493>>>>,
      <<493, 1, <<>>>>, <<494, 3, <<495>>>>, <<495, 1, <<>>>>, <<497, 3, <<100, 122>>>>,
      <<500, 3, <<501>>>>, <<501, 1, <<>>>>, <<502, 3, <<405>>>>, <<503, 3, <<447>>>>,
      <<504, 3, <<505>>>>, <<505, 1, <<>>>>, <<506, 3, <<507>>>>, <<507, 1, <<>>>>,
      <<508, 3, <<509>>>>, <<509, 1, <<>>>>, <<510, 3, <<511>>>>, <<511, 1, <<>>>>,
      <<512, 3, <<513>>>>, <<513, 1, <<>>>>, <<514, 3, <<515>>>>, <<515, 1, <<>>>>,
      <<516, 3, <<517>>>>, <<517, 1, <<>>>>, <<518, 3, <<519>>>>, <<519, 1, <<>>>>,
      <<520, 3, <<521>>>>, <<521, 1, <<>>>>, <<522, 3, <<523>>>>, <<523, 1, <<>>>>,
      <<524, 3, <<525>>>>, <<525, 1, <<>>>>, <<526, 3, <<527>>>>, <<527, 1, <<>>>>,
      <<528, 3, <<529>>>>, <<529, 1, <<>>>>, <<530, 3, <<531>>>>, <<531, 1, <<>>>>,
      <<532, 3, <<533>>>>, <<533, 1, <<>>>>, <<534, 3, <<535>>>>, <<535, 1, <<>>>>,
      <<536, 3, <<537>>>>, <<537, 1, <<>>>>, <<538, 3, <<539>>>>, <<539, 1, <<>>>>,
      <<540, 3, <<541>>>>, <<541, 1, <<>>>>, <<542, 3, <<543>>>>, <<543, 1, <<>>>>,
      <<544, 3, <<414>>>>, <<545, 1, <<>>>>, <<546, 3, <<547>>>>, <<547, 1, <<>>>>,
      <<548, 3, <<549>>>>, <<549, 1, <<>>>>, <<550, 3, <<551>>>>, <<551, 1, <<>>>>,
      <<552, 3, <<553>>>>, <<553, 1, <<>>>>, <<554, 3, <<555>>>>, <<555, 1, <<>>>>,
      <<556, 3, <<557>>>>, <<557, 1, <<>>>>, <<558, 3, <<559>>>>, <<559, 1, <<>>>>,
      <<560, 3, <<561>>>>, <<561, 1, <<>>>>, <<562, 3, <<563>>>>, <<563, 1, <<>>>>,
      <<570, 3, <<11365>>>>, <<571, 3, <<572>>>>, <<572, 1, <<>>>>, <<573, 3, <<410>>>>,
      <<574, 3, <<11366>>>>, <<575, 1, <<>>>>, <<577, 3, <<578>>>>, <<578, 1, <<>>>>,
      <<579, 3, <<384>>>>, <<580, 3, <<649>>>>, <<581, 3, <<652>>>>, <<582, 3, <<583>>>>,
      <<583, 1, <<>>>>, <<584, 3, <<585>>>>, <<585, 1, <<>>>>, <<586, 3, <<587>>>>,
      <<587, 1, <<>>>>, <<588, 3, <<589>>>>, <<589, 1, <<>>>>, <<590, 3, <<591>>>>,
      <<591, 1, <<>>>>, <<688, 3, <<104>>>>, <<689, 3, <<614>>>>, <<690, 3, <<106>>>>,
      <<691, 3, <<114>>>>, <<692, 3, <<633>>>>, <<693, 3, <<635>>>>, <<694, 3, <<641>>>>,
      <<695, 3, <<119>>>>, <<696, 3, <<121>>>>, <<697, 1, <<>>>>, <<728, 3, <<32, 774>>>>,
      <<729, 3, <<32, 775>>>>, <<730, 3, <<32, 778>>>>, <<731, 3, <<32, 808>>>>,
      <<732, 3, <<32, 771>>>>, <<733, 3, <<32, 779>>>>, <<734, 1, <<>>>>, <<736, 3, <<611>>>>,
      <<737, 3, <<108>>>>, <<738, 3, <<115>>>>, <<739, 3, <<120>>>>, <<740, 3, <<661>>>>,
      <<741, 1, <<>>>>, <<832, 3, <<768>>>>, <<833, 3, <<769>>>>, <<834, 1, <<>>>>,
      <<835, 3, <<787>>>>, <<836, 3, <<776, 769>>>>, <<837, 3, <<953>>>>, <<838, 1, <<>>>>,
      <<847, 0, <<>>>>, <<848, 1, <<>>>>, <<880, 3, <<881>>>>, <<881, 1, <<>>>>,
      <<882, 3, <<883>>>>, <<883, 1, <<>>>>, <<884, 3, <<697>>>>, <<885, 1, <<>>>>,
      <<886, 3, <<887>>>>, <<887, 1, <<>>>>, <<888, 2, <<>>>>, <<890, 3, <<32, 953>>>>,
      <<891, 1, <<>>>>, <<894, 3, <<59>>>>, <<895, 3, <<1011>>>>, <<896, 2, <<>>>>,
      <<900, 3, <<32, 769>>>>, <<901, 3, <<32, 776, 769>>>>, <<902, 3, <<940>>>>,
      <<903, 3, <<183>>>>, <<904, 3, <<941>>>>, <<905, 3, <<942>>>>, <<906, 3, <<943>>>>,
      <<907, 2, <<>>>>, <<908, 3, <<972>>>>, <<909, 2, <<>>>>, <<910, 3, <<973>>>>,
      <<911, 3, <<974>>>>, <<912, 1, <<>>>>, <<913, 3, <<945>>>>, <<914, 3, <<946>>>>,
      <<915, 3, <<947>>>>, <<916, 3, <<948>>>>, <<917, 3, <<949>>>>, <<918, 3, <<950>>>>,
      <<919, 3, <<951>>>>, <<920, 3, <<952>>>>, <<921, 3, <<953>>>>, <<922, 3, <<954>>>>,
      <<923, 3, <<955>>>>, <<924, 3, <<956>>>>, <<925, 3, <<957>>>>, <<926, 3, <<958>>>>,
      <<927, 3, <<959>>>>, <<928, 3, <<960>>>>, <<929, 3, <<961>>>>, <<930, 2, <<>>>>,
      <<931, 3, <<963>>>>, <<932, 3, <<964>>>>, <<933, 3, <<965>>>>, <<934, 3, <<966>>>>,
      <<935, 3, <<967>>>>, <<936, 3, <<968>>>>, <<937, 3, <<969>>>>, <<938, 3, <<970>>>>,
      <<939, 3, <<971>>>>, <<940, 1, <<>>>>, <<975, 3, <<983>>>>, <<976, 3, <<946>>>>,
      <<977, 3, <<952>>>>, <<978, 3, <<965>>>>, <<979, 3, <<973>>>>, <<980, 3, <<971>>>>,
      <<981, 3, <<966>>>>, <<982, 3, <<960>>>>, <<983, 1, <<>>>>, <<984, 3, <<985>>>>,
      <<985, 1, <<>>>>, <<986, 3, <<987>>>>, <<987, 1, <<>>>>, <<988, 3, <<989>>>>,
      <<989, 1, <<>>>>, <<990, 3, <<991>>>>, <<991, 1, <<>>>>, <<992, 3, <<993>>>>,
      <<993, 1, <<>>>>, <<994, 3, <<995>>>>, <<995, 1, <<>>>>, <<996, 3, <<997>>>>,
      <<997, 1, <<>>>>, <<998, 3, <<999>>>>, <<999, 1, <<>>>>, <<1000, 3, <<1001>>>>,
      <<1001, 1, <<>>>>, <<1002, 3, <<1003>>>>, <<1003, 1, <<>>>>, <<1004, 3, <<1005>>>>,
      <<1005, 1, <<>>>>, <<1006, 3, <<1007>>>>, <<1007, 1, <<>>>>, <<1008, 3, <<954>>>>,
      <<1009, 3, <<961>>>>, <<1010, 3, <<963>>>>, <<1011, 1, <<>>>>, <<1012, 3, <<952>>>>,
      <<1013, 3, <<949>>>>, <<1014, 1, <<>>>>, <<1015, 3, <<1016>>>>, <<1016, 1, <<>>>>,
      <<1017, 3, <<963>>>>, <<1018, 3, <<1019>>>>, <<1019, 1, <<>>>>, <<1021, 3, <<891>>>>,
      <<1022, 3, <<892>>>>, <<1023, 3, <<893>>>>, <<1024, 3, <<1104>>>>, <<1025, 3, <<1105>>>>,
      <<1026, 3, <<1106>>>>, <<1027, 3, <<1107>>>>, <<1028, 3, <<1108>>>>,
      <<1029, 3, <<1109>>>>, <<1030, 3, <<1110>>>>, <<1031, 3, <<1111>>>>,
      <<1032, 3, <<1112>>>>, <<1033, 3, <<1113>>>>, <<1034, 3, <<1114>>>>,
      <<1035, 3, <<1115>>>>, <<1036, 3, <<1116>>>>, <<1037, 3, <<1117>>>>,
      <<1038, 3, <<1118>>>>, <<1039, 3, <<1119>>>>, <<1040, 3, <<1072>>>>,
      <<1041, 3, <<1073>>>>, <<1042, 3, <<1074>>>>, <<1043, 3, <<1075>>>>,
      <<1044, 3, <<1076>>>>, <<1045, 3, <<1077>>>>, <<1046, 3, <<1078>>>>,
      <<1047, 3, <<1079>>>>, <<1048, 3, <<1080>>>>, <<1049, 3, <<1081>>>>,
      <<1050, 3, <<1082>>>>, <<1051, 3, <<1083>>>>, <<1052, 3, <<1084>>>>,
      <<1053, 3, <<1085>>>>, <<1054, 3, <<1086>>>>, <<1055, 3, <<1087>>>>,
      <<1056, 3, <<1088>>>>, <<1057, 3, <<1089>>>>, <<1058, 3, <<1090>>>>,
      <<1059, 3, <<1091>>>>, <<1060, 3, <<1092>>>>, <<1061, 3, <<1093>>>>,
      <<1062, 3, <<1094>>>>, <<1063, 3, <<1095>>>>, <<1064, 3, <<1096>>>>,
      <<1065, 3, <<1097>>>>, <<1066, 3, <<1098>>>>, <<1067, 3, <<1099>>>>,
      <<1068, 3, <<1100>>>>, <<1069, 3, <<1101>>>>, <<1070, 3, <<1102>>>>,
      <<1071, 3, <<1103>>>>, <<1072, 1, <<>>>>, <<1120, 3, <<1121>>>>, <<1121, 1, <<>>>>,
      <<1122, 3, <<1123>>>>, <<1123, 1, <<>>>>, <<1124, 3, <<1125>>>>, <<1125, 1, <<>>>>,
      <<1126, 3, <<1127>>>>, <<1127, 1, <<>>>>, <<1128, 3, <<1129>>>>, <<1129, 1, <<>>>>,
      <<1130, 3, <<1131>>>>, <<1131, 1, <<>>>>, <<1132, 3, <<1133>>>>, <<1133, 1, <<>>>>,
      <<1134, 3, <<1135>>>>, <<1135, 1, <<>>>>, <<1136, 3, <<1137>>>>, <<1137, 1, <<>>>>,
      <<1138, 3, <<1139>>>>, <<1139, 1, <<>>>>, <<1140, 3, <<1141>>>>, <<1141, 1, <<>>>>,
      <<1142, 3, <<1143>>>>, <<1143, 1, <<>>>>, <<1144, 3, <<1145>>>>, <<1145, 1, <<>>>>,
      <<1146, 3, <<1147>>>>, <<1147, 1, <<>>>>, <<1148, 3, <<1149>>>>, <<1149, 1, <<>>>>,
      <<1150, 3, <<1151>>>>, <<1151, 1, <<>>>>, <<1152, 3, <<1153>>>>, <<1153, 1, <<>>>>,
      <<1162, 3, <<1163>>>>, <<1163, 1, <<>>>>, <<1164, 3, <<1165>>>>, <<1165, 1, <<>>>>,
      <<1166, 3, <<1167>>>>, <<1167, 1, <<>>>>, <<1168, 3, <<1169>>>>, <<1169, 1, <<>>>>,
      <<1170, 3, <<1171>>>>, <<1171, 1, <<>>>>, <<1172, 3, <<1173>>>>, <<1173, 1, <<>>>>,
      <<1174, 3, <<1175>>>>, <<1175, 1, <<>>>>, <<1176, 3, <<1177>>>>, <<1177, 1, <<>>>>,
      <<1178, 3, <<1179>>>>, <<1179, 1, <<>>>>, <<1180, 3, <<1181>>>>, <<1181, 1, <<>>>>,
      <<1182, 3, <<1183>>>>, <<1183, 1, <<>>>>, <<1184, 3, <<1185>>>>, <<1185, 1, <<>>>>,
      <<1186, 3, <<1187>>>>, <<1187, 1, <<>>>>, <<1188, 3, <<1189>>>>, <<1189, 1, <<>>>>,
      <<1190, 3, <<1191>>>>, <<1191, 1, <<>>>>, <<1192, 3, <<1193>>>>, <<1193, 1, <<>>>>,
      <<1194, 3, <<1195>>>>, <<1195, 1, <<>>>>, <<1196, 3, <<1197>>>>, <<1197, 1, <<>>>>,
      <<1198, 3, <<1199>>>>, <<1199, 1, <<>>>>, <<1200, 3, <<1201>>>>, <<1201, 1, <<>>>>,
      <<1202, 3, <<1203>>>>, <<1203, 1, <<>>>>, <<1204, 3, <<1205>>>>, <<1205, 1, <<>>>>,
      <<1206, 3, <<1207>>>>, <<1207, 1, <<>>>>, <<1208, 3, <<1209>>>>, <<1209, 1, <<>>>>,
      <<1210, 3, <<1211>>>>, <<1211, 1, <<>>>>, <<1212, 3, <<1213>>>>, <<1213, 1, <<>>>>,
      <<1214, 3, <<1215>>>>, <<1215, 1, <<>>>>, <<1216, 2, <<>>>>, <<1217, 3, <<1218>>>>,
      <<1218, 1, <<>>>>, <<1219, 3, <<1220>>>>, <<1220, 1, <<>>>>, <<1221, 3, <<1222>>>>,
      <<1222, 1, <<>>>>, <<1223, 3, <<1224>>>>, <<1224, 1, <<>>>>, <<1225, 3, <<1226>>>>,
      <<1226, 1, <<>>>>, <<1227, 3, <<1228>>>>, <<1228, 1, <<>>>>, <<1229, 3, <<1230>>>>,
      <<1230, 1, <<>>>>, <<1232, 3, <<1233>>>>, <<1233, 1, <<>>>>, <<1234, 3, <<1235>>>>,
      <<1235, 1, <<>>>>, <<1236, 3, <<1237>>>>, <<1237, 1, <<>>>>, <<1238, 3, <<1239>>>>,
      <<1239, 1, <<>>>>, <<1240, 3, <<1241>>>>, <<1241, 1, <<>>>>, <<1242, 3, <<1243>>>>,
      <<1243, 1, <<>>>>, <<1244, 3, <<1245>>>>, <<1245, 1, <<>>>>, <<1246, 3, <<1247>>>>,
      <<1247, 1, <<>>>>, <<1248, 3, <<1249>>>>, <<1249, 1, <<>>>>, <<1250, 3, <<1251>>>>,
      <<1251, 1, <<>>>>, <<1252, 3, <<1253>>>>, <<1253, 1, <<>>>>, <<1254, 3, <<1255>>>>,
      <<1255, 1, <<>>>>, <<1256, 3, <<1257>>>>, <<1257, 1, <<>>>>, <<1258, 3, <<1259>>>>,
      <<1259, 1, <<>>>>, <<1260, 3, <<1261>>>>, <<1261, 1, <<>>>>, <<1262, 3, <<1263>>>>,
      <<1263, 1, <<>>>>, <<1264, 3, <<1265>>>>, <<1265, 1, <<>>>>, <<1266, 3, <<1267>>>>,
      <<1267, 1, <<>>>>, <<1268, 3, <<1269>>>>, <<1269, 1, <<>>>>, <<1270, 3, <<1271>>>>,
      <<1271, 1, <<>>>>, <<1272, 3, <<1273>>>>, <<1273, 1, <<>>>>, <<1274, 3, <<1275>>>>,
      <<1275, 1, <<>>>>, <<1276, 3, <<1277>>>>, <<1277, 1, <<>>>>, <<1278, 3, <<1279>>>>,
      <<1279, 1, <<>>>>, <<1280, 3, <<1281>>>>, <<1281, 1, <<>>>>, <<1282, 3, <<1283>>>>,
      <<1283, 1, <<>>>>, <<1284, 3, <<1285>>>>, <<1285, 1, <<>>>>, <<1286, 3, <<1287>>>>,
      <<1287, 1, <<>>>>, <<1288, 3, <<1289>>>>, <<1289, 1, <<>>>>, <<1290, 3, <<1291>>>>,
      <<1291, 1, <<>>>>, <<1292, 3, <<1293>>>>, <<1293, 1, <<>>>>, <<1294, 3, <<1295>>>>,
      <<1295, 1, <<>>>>, <<1296, 3, <<1297>>>>, <<1297, 1, <<>>>>, <<1298, 3, <<1299>>>>,
      <<1299, 1, <<>>>>, <<1300, 3, <<1301>>>>, <<1301, 1, <<>>>>, <<1302, 3, <<1303>>>>,
      <<1303, 1, <<>>>>, <<1304, 3, <<1305>>>>, <<1305, 1, <<>>>>, <<1306, 3, <<1307>>>>,
      <<1307, 1, <<>>>>, <<1308, 3, <<1309>>>>, <<1309, 1, <<>>>>, <<1310, 3, <<1311>>>>,
      <<1311, 1, <<>>>>, <<1312, 3, <<1313>>>>, <<1313, 1, <<>>>>, <<1314, 3, <<1315>>>>,
      <<1315, 1, <<>>>>, <<1316, 3, <<1317>>>>, <<1317, 1, <<>>>>, <<1318, 3, <<1319>>>>,
      <<1319, 1, <<>>>>, <<1320, 3, <<1321>>>>, <<1321, 1, <<>>>>, <<1322, 3, <<1323>>>>,
      <<1323, 1, <<>>>>, <<1324, 3, <<1325>>>>, <<1325, 1, <<>>>>, <<1326, 3, <<1327>>>>,
      <<1327, 1, <<>>>>, <<1328, 2, <<>>>>, <<1329, 3, <<1377>>>>, <<1330, 3, <<1378>>>>,
      <<1331, 3, <<1379>>>>, <<1332, 3, <<1380>>>>, <<1333, 3, <<1381>>>>,
      <<1334, 3, <<1382>>>>, <<1335, 3, <<1383>>>>, <<1336, 3, <<1384>>>>,
      <<1337, 3, <<1385>>>>, <<1338, 3, <<1386>>>>, <<1339, 3, <<1387>>>>,
      <<1340, 3, <<1388>>>>, <<1341, 3, <<1389>>>>, <<1342, 3, <<1390>>>>,
      <<1343, 3, <<1391>>>>, <<1344, 3, <<1392>>>>, <<1345, 3, <<1393>>>>,
      <<1346, 3, <<1394>>>>, <<1347, 3, <<1395>>>>, <<1348, 3, <<1396>>>>,
      <<1349, 3, <<1397>>>>, <<1350, 3, <<1398>>>>, <<1351, 3, <<1399>>>>,
      <<1352, 3, <<1400>>>>, <<1353, 3, <<1401>>>>, <<1354, 3, <<1402>>>>,
      <<1355, 3, <<1403>>>>, <<1356, 3, <<1404>>>>, <<1357, 3, <<1405>>>>,
      <<1358, 3, <<1406>>>>, <<1359, 3, <<1407>>>>, <<1360, 3, <<1408>>>>,
      <<1361, 3, <<1409>>>>, <<1362, 3, <<1410>>>>, <<1363, 3, <<1411>>>>,
      <<1364, 3, <<1412>>>>, <<1365, 3, <<1413>>>>, <<1366, 3, <<1414>>>>, <<1367, 2, <<>>>>,
      <<1369, 1, <<>>>>, <<1415, 3, <<1381, 1410>>>>, <<1416, 1, <<>>>>, <<1419, 2, <<>>>>,
      <<1421, 1, <<>>>>, <<1424, 2, <<>>>>, <<1425, 1, <<>>>>, <<1480, 2, <<>>>>,
      <<1488, 1, <<>>>>, <<1515, 2, <<>>>>, <<1519, 1, <<>>>>, <<1525, 2, <<>>>>,
      <<1542, 1, <<>>>>, <<1564, 2, <<>>>>, <<1565, 1, <<>>>>, <<1653, 3, <<1575, 1652>>>>,
      <<1654, 3, <<1608, 1652>>>>, <<1655, 3, <<1735, 1652>>>>, <<1656, 3, <<1610, 1652>>>>,
      <<1657, 1, <<>>>>, <<1757, 2, <<>>>>, <<1758, 1, <<>>>>, <<1806, 2, <<>>>>,
      <<1808, 1, <<>>>>, <<1867, 2, <<>>>>, <<1869, 1, <<>>>>, <<1970, 2, <<>>>>,
      <<1984, 1, <<>>>>, <<2043, 2, <<>>>>, <<2045, 1, <<>>>>, <<2094, 2, <<>>>>,
      <<2096, 1, <<>>>>, <<2111, 2, <<>>>>, <<2112, 1, <<>>>>, <<2140, 2, <<>>>>,
      <<2142, 1, <<>>>>, <<2143, 2, <<>>>>, <<2144, 1, <<>>>>, <<2155, 2, <<>>>>,
      <<2160, 1, <<>>>>, <<2191, 2, <<>>>>, <<2200, 1, <<>>>>, <<2274, 2, <<>>>>,
      <<2275, 1, <<>>>>, <<2392, 3, <<2325, 2364>>>>, <<2393, 3, <<2326, 2364>>>>,
      <<2394, 3, <<2327, 2364>>>>, <<2395, 3, <<2332, 2364>>>>, <<2396, 3, <<2337, 2364>>>>,
      <<2397, 3, <<2338, 2364>>>>, <<2398, 3, <<2347, 2364>>>>, <<2399, 3, <<2351, 2364>>>>,
      <<2400, 1, <<>>>>, <<2436, 2, <<>>>>, <<2437, 1, <<>>>>, <<2445, 2, <<>>>>,
      <<2447, 1, <<>>>>, <<2449, 2, <<>>>>, <<2451, 1, <<>>>>, <<2473, 2, <<>>>>,
      <<2474, 1, <<>>>>, <<2481, 2, <<>>>>, <<2482, 1, <<>>>>, <<2483, 2, <<>>>>,
      <<2486, 1, <<>>>>, <<2490, 2, <<>>>>, <<2492, 1, <<>>>>, <<2501, 2, <<>>>>,
      <<2503, 1, <<>>>>, <<2505, 2, <<>>>>, <<2507, 1, <<>>>>, <<2511, 2, <<>>>>,
      <<2519, 1, <<>>>>, <<2520, 2, <<>>>>, <<2524, 3, <<2465, 2492>>>>,
      <<2525, 3, <<2466, 2492>>>>, <<2526, 2, <<>>>>, <<2527, 3, <<2479, 2492>>>>,
      <<2528, 1, <<>>>>, <<2532, 2, <<>>>>, <<2534, 1, <<>>>>, <<2559, 2, <<>>>>,
      <<2561, 1, <<>>>>, <<2564, 2, <<>>>>, <<2565, 1, <<>>>>, <<2571, 2, <<>>>>,
      <<2575, 1, <<>>>>, <<2577, 2, <<>>>>, <<2579, 1, <<>>>>, <<2601, 2, <<>>>>,
      <<2602, 1, <<>>>>, <<2609, 2, <<>>>>, <<2610, 1, <<>>>>, <<2611, 3, <<2610, 2620>>>>,
      <<2612, 2, <<>>>>, <<2613, 1, <<>>>>, <<2614, 3, <<2616, 2620>>>>, <<2615, 2, <<>>>>,
      <<2616, 1, <<>>>>, <<2618, 2, <<>>>>, <<2620, 1, <<>>>>, <<2621, 2, <<>>>>,
      <<2622, 1, <<>>>>, <<2627, 2, <<>>>>, <<2631, 1, <<>>>>, <<2633, 2, <<>>>>,
      <<2635, 1, <<>>>>, <<2638, 2, <<>>>>, <<2641, 1, <<>>>>, <<2642, 2, <<>>>>,
      <<2649, 3, <<2582, 2620>>>>, <<2650, 3, <<2583, 2620>>>>, <<2651, 3, <<2588, 2620>>>>,
      <<2652, 1, <<>>>>, <<2653, 2, <<>>>>, <<2654, 3, <<2603, 2620>>>>, <<2655, 2, <<>>>>,
      <<2662, 1, <<>>>>, <<2679, 2, <<>>>>, <<2689, 1, <<>>>>, <<2692, 2, <<>>>>,
      <<2693, 1, <<>>>>, <<2702, 2, <<>>>>, <<2703, 1, <<>>>>, <<2706, 2, <<>>>>,
      <<2707, 1, <<>>>>, <<2729, 2, <<>>>>, <<2730, 1, <<>>>>, <<2737, 2, <<>>>>,
      <<2738, 1, <<>>>>, <<2740, 2, <<>>>>, <<2741, 1, <<>>>>, <<2746, 2, <<>>>>,
      <<2748, 1, <<>>>>, <<2758, 2, <<>>>>, <<2759, 1, <<>>>>, <<2762, 2, <<>>>>,
      <<2763, 1, <<>>>>, <<2766, 2, <<>>>>, <<2768, 1, <<>>>>, <<2769, 2, <<>>>>,
      <<2784, 1, <<>>>>, <<2788, 2, <<>>>>, <<2790, 1, <<>>>>, <<2802, 2, <<>>>>,
      <<2809, 1, <<>>>>, <<2816, 2, <<>>>>, <<2817, 1, <<>>>>, <<2820, 2, <<>>>>,
      <<2821, 1, <<>>>>, <<2829, 2, <<>>>>, <<2831, 1, <<>>>>, <<2833, 2, <<>>>>,
      <<2835, 1, <<>>>>, <<2857, 2, <<>>>>, <<2858, 1, <<>>>>, <<2865, 2, <<>>>>,
      <<2866, 1, <<>>>>, <<2868, 2, <<>>>>, <<2869, 1, <<>>>>, <<2874, 2, <<>>>>,
      <<2876, 1, <<>>>>, <<2885, 2, <<>>>>, <<2887, 1, <<>>>>, <<2889, 2, <<>>>>,
      <<2891, 1, <<>>>>, <<2894, 2, <<>>>>, <<2901, 1, <<>>>>, <<2904, 2, <<>>>>,
      <<2908, 3, <<2849, 2876>>>>, <<2909, 3, <<2850, 2876>>>>, <<2910, 2, <<>>>>,
      <<2911, 1, <<>>>>, <<2916, 2, <<>>>>, <<2918, 1, <<>>>>, <<2936, 2, <<>>>>,
      <<2946, 1, <<>>>>, <<2948, 2, <<>>>>, <<2949, 1, <<>>>>, <<2955, 2, <<>>>>,
      <<2958, 1, <<>>>>, <<2961, 2, <<>>>>, <<2962, 1, <<>>>>, <<2966, 2, <<>>>>,
      <<2969, 1, <<>>>>, <<2971, 2, <<>>>>, <<2972, 1, <<>>>>, <<2973, 2, <<>>>>,
      <<2974, 1, <<>>>>, <<2976, 2, <<>>>>, <<2979, 1, <<>>>>, <<2981, 2, <<>>>>,
      <<2984, 1, <<>>>>, <<2987, 2, <<>>>>, <<2990, 1, <<>>>>, <<3002, 2, <<>>>>,
      <<3006, 1, <<>>>>, <<3011, 2, <<>>>>, <<3014, 1, <<>>>>, <<3017, 2, <<>>>>,
      <<3018, 1, <<>>>>, <<3022, 2, <<>>>>, <<3024, 1, <<>>>>, <<3025, 2, <<>>>>,
      <<3031, 1, <<>>>>, <<3032, 2, <<>>>>, <<3046, 1, <<>>>>, <<3067, 2, <<>>>>,
      <<3072, 1, <<>>>>, <<3085, 2, <<>>>>, <<3086, 1, <<>>>>, <<3089, 2, <<>>>>,
      <<3090, 1, <<>>>>, <<3113, 2, <<>>>>, <<3114, 1, <<>>>>, <<3130, 2, <<>>>>,
      <<3132, 1, <<>>>>, <<3141, 2, <<>>>>, <<3142, 1, <<>>>>, <<3145, 2, <<>>>>,
      <<3146, 1, <<>>>>, <<3150, 2, <<>>>>, <<3157, 1, <<>>>>, <<3159, 2, <<>>>>,
      <<3160, 1, <<>>>>, <<3163, 2, <<>>>>, <<3165, 1, <<>>>>, <<3166, 2, <<>>>>,
      <<3168, 1, <<>>>>, <<3172, 2, <<>>>>, <<3174, 1, <<>>>>, <<3184, 2, <<>>>>,
      <<3191, 1, <<>>>>, <<3213, 2, <<>>>>, <<3214, 1, <<>>>>, <<3217, 2, <<>>>>,
      <<3218, 1, <<>>>>, <<3241, 2, <<>>>>, <<3242, 1, <<>>>>, <<3252, 2, <<>>>>,
      <<3253, 1, <<>>>>, <<3258, 2, <<>>>>, <<3260, 1, <<>>>>, <<3269, 2, <<>>>>,
      <<3270, 1, <<>>>>, <<3273, 2, <<>>>>, <<3274, 1, <<>>>>, <<3278, 2, <<>>>>,
      <<3285, 1, <<>>>>, <<3287, 2, <<>>>>, <<3293, 1, <<>>>>, <<3295, 2, <<>>>>,
      <<3296, 1, <<>>>>, <<3300, 2, <<>>>>, <<3302, 1, <<>>>>, <<3312, 2, <<>>>>,
      <<3313, 1, <<>>>>, <<3316, 2, <<>>>>, <<3328, 1, <<>>>>, <<3341, 2, <<>>>>,
      <<3342, 1, <<>>>>, <<3345, 2, <<>>>>, <<3346, 1, <<>>>>, <<3397, 2, <<>>>>,
      <<3398, 1, <<>>>>, <<3401, 2, <<>>>>, <<3402, 1, <<>>>>, <<3408, 2, <<>>>>,
      <<3412, 1, <<>>>>, <<3428, 2, <<>>>>, <<3430, 1, <<>>>>, <<3456, 2, <<>>>>,
      <<3457, 1, <<>>>>, <<3460, 2, <<>>>>, <<3461, 1, <<>>>>, <<3479, 2, <<>>>>,
      <<3482, 1, <<>>>>, <<3506, 2, <<>>>>, <<3507, 1, <<>>>>, <<3516, 2, <<>>>>,
      <<3517, 1, <<>>>>, <<3518, 2, <<>>>>, <<3520, 1, <<>>>>, <<3527, 2, <<>>>>,
      <<3530, 1, <<>>>>, <<3531, 2, <<>>>>, <<3535, 1, <<>>>>, <<3541, 2, <<>>>>,
      <<3542, 1, <<>>>>, <<3543, 2, <<>>>>, <<3544, 1, <<>>>>, <<3552, 2, <<>>>>,
      <<3558, 1, <<>>>>, <<3568, 2, <<>>>>, <<3570, 1, <<>>>>, <<3573, 2, <<>>>>,
      <<3585, 1, <<>>>>, <<3635, 3, <<3661, 3634>>>>, <<3636, 1, <<>>>>, <<3643, 2, <<>>>>,
      <<3647, 1, <<>>>>, <<3676, 2, <<>>>>, <<3713, 1, <<>>>>, <<3715, 2, <<>>>>,
      <<3716, 1, <<>>>>, <<3717, 2, <<>>>>, <<3718, 1, <<>>>>, <<3723, 2, <<>>>>,
      <<3724, 1, <<>>>>, <<3748, 2, <<>>>>, <<3749, 1, <<>>>>, <<3750, 2, <<>>>>,
      <<3751, 1, <<>>>>, <<3763, 3, <<3789, 3762>>>>, <<3764, 1, <<>>>>, <<3774, 2, <<>>>>,
      <<3776, 1, <<>>>>, <<3781, 2, <<>>>>, <<3782, 1, <<>>>>, <<3783, 2, <<>>>>,
      <<3784, 1, <<>>>>, <<3791, 2, <<>>>>, <<3792, 1, <<>>>>, <<3802, 2, <<>>>>,
      <<3804, 3, <<3755, 3737>>>>, <<3805, 3, <<3755, 3745>>>>, <<3806, 1, <<>>>>,
      <<3808, 2, <<>>>>, <<3840, 1, <<>>>>, <<3852, 3, <<3851>>>>, <<3853, 1, <<>>>>,
      <<3907, 3, <<3906, 4023>>>>, <<3908, 1, <<>>>>, <<3912, 2, <<>>>>, <<3913, 1, <<>>>>,
      <<3917, 3, <<3916, 4023>>>>, <<3918, 1, <<>>>>, <<3922, 3, <<3921, 4023>>>>,
      <<3923, 1, <<>>>>, <<3927, 3, <<3926, 4023>>>>, <<3928, 1, <<>>>>,
      <<3932, 3, <<3931, 4023>>>>, <<3933, 1, <<>>>>, <<3945, 3, <<3904, 4021>>>>,
      <<3946, 1, <<>>>>, <<3949, 2, <<>>>>, <<3953, 1, <<>>>>, <<3955, 3, <<3953, 3954>>>>,
      <<3956, 1, <<>>>>, <<3957, 3, <<3953, 3956>>>>, <<3958, 3, <<4018, 3968>>>>,
      <<3959, 3, <<4018, 3953, 3968>>>>, <<3960, 3, <<4019, 3968>>>>,
      <<3961, 3, <<4019, 3953, 3968>>>>, <<3962, 1, <<>>>>, <<3969, 3, <<3953, 3968>>>>,
      <<3970, 1, <<>>>>, <<3987, 3, <<3986, 4023>>>>, <<3988, 1, <<>>>>, <<3992, 2, <<>>>>,
      <<3993, 1, <<>>>>, <<3997, 3, <<3996, 4023>>>>, <<3998, 1, <<>>>>,
      <<4002, 3, <<4001, 4023>>>>, <<4003, 1, <<>>>>, <<4007, 3, <<4006, 4023>>>>,
      <<4008, 1, <<>>>>, <<4012, 3, <<4011, 4023>>>>, <<4013, 1, <<>>>>,
      <<4025, 3, <<3984, 4021>>>>, <<4026, 1, <<>>>>, <<4029, 2, <<>>>>, <<4030, 1, <<>>>>,
      <<4045, 2, <<>>>>, <<4046, 1, <<>>>>, <<4059, 2, <<>>>>, <<4096, 1, <<>>>>,
      <<4256, 2, <<>>>>, <<4295, 3, <<11559>>>>, <<4296, 2, <<>>>>, <<4301, 3, <<11565>>>>,
      <<4302, 2, <<>>>>, <<4304, 1, <<>>>>, <<4348, 3, <<4316>>>>, <<4349, 1, <<>>>>,
      <<4447, 2, <<>>>>, <<4449, 1, <<>>>>, <<4681, 2, <<>>>>, <<4682, 1, <<>>>>,
      <<4686, 2, <<>>>>, <<4688, 1, <<>>>>, <<4695, 2, <<>>>>, <<4696, 1, <<>>>>,
      <<4697, 2, <<>>>>, <<4698, 1, <<>>>>, <<4702, 2, <<>>>>, <<4704, 1, <<>>>>,
      <<4745, 2, <<>>>>, <<4746, 1, <<>>>>, <<4750, 2, <<>>>>, <<4752, 1, <<>>>>,
      <<4785, 2, <<>>>>, <<4786, 1, <<>>>>, <<4790, 2, <<>>>>, <<4792, 1, <<>>>>,
      <<4799, 2, <<>>>>, <<4800, 1, <<>>>>, <<4801, 2, <<>>>>, <<4802, 1, <<>>>>,
      <<4806, 2, <<>>>>, <<4808, 1, <<>>>>, <<4823, 2, <<>>>>, <<4824, 1, <<>>>>,
      <<4881, 2, <<>>>>, <<4882, 1, <<>>>>, <<4886, 2, <<>>>>, <<4888, 1, <<>>>>,
      <<4955, 2, <<>>>>, <<4957, 1, <<>>>>, <<4989, 2, <<>>>>, <<4992, 1, <<>>>>,
      <<5018, 2, <<>>>>, <<5024, 1, <<>>>>, <<5110, 2, <<>>>>, <<5112, 3, <<5104>>>>,
      <<5113, 3, <<5105>>>>, <<5114, 3, <<5106>>>>, <<5115, 3, <<5107>>>>,
      <<5116, 3, <<5108>>>>, <<5117, 3, <<5109>>>>, <<5118, 2, <<>>>>, <<5120, 1, <<>>>>,
      <<5760, 2, <<>>>>, <<5761, 1, <<>>>>, <<5789, 2, <<>>>>, <<5792, 1, <<>>>>,
      <<5881, 2, <<>>>>, <<5888, 1, <<>>>>, <<5910, 2, <<>>>>, <<5919, 1, <<>>>>,
      <<5943, 2, <<>>>>, <<5952, 1, <<>>>>, <<5972, 2, <<>>>>, <<5984, 1, <<>>>>,
      <<5997, 2, <<>>>>, <<5998, 1, <<>>>>, <<6001, 2, <<>>>>, <<6002, 1, <<>>>>,
      <<6004, 2, <<>>>>, <<6016, 1, <<>>>>, <<6068, 2, <<>>>>, <<6070, 1, <<>>>>,
      <<6110, 2, <<>>>>, <<6112, 1, <<>>>>, <<6122, 2, <<>>>>, <<6128, 1, <<>>>>,
      <<6138, 2, <<>>>>, <<6144, 1, <<>>>>, <<6150, 2, <<>>>>, <<6151, 1, <<>>>>,
      <<6155, 0, <<>>>>, <<6158, 2, <<>>>>, <<6159, 0, <<>>>>, <<6160, 1, <<>>>>,
      <<6170, 2, <<>>>>, <<6176, 1, <<>>>>, <<6265, 2, <<>>>>, <<6272, 1, <<>>>>,
      <<6315, 2, <<>>>>, <<6320, 1, <<>>>>, <<6390, 2, <<>>>>, <<6400, 1, <<>>>>,
      <<6431, 2, <<>>>>, <<6432, 1, <<>>>>, <<6444, 2, <<>>>>, <<6448, 1, <<>>>>,
      <<6460, 2, <<>>>>, <<6464, 1, <<>>>>, <<6465, 2, <<>>>>, <<6468, 1, <<>>>>,
      <<6510, 2, <<>>>>, <<6512, 1, <<>>>>, <<6517, 2, <<>>>>, <<6528, 1, <<>>>>,
      <<6572, 2, <<>>>>, <<6576, 1, <<>>>>, <<6602, 2, <<>>>>, <<6608, 1, <<>>>>,
      <<6619, 2, <<>>>>, <<6622, 1, <<>>>>, <<6684, 2, <<>>>>, <<6686, 1, <<>>>>,
      <<6751, 2, <<>>>>, <<6752, 1, <<>>>>, <<6781, 2, <<>>>>, <<6783, 1, <<>>>>,
      <<6794, 2, <<>>>>, <<6800, 1, <<>>>>, <<6810, 2, <<>>>>, <<6816, 1, <<>>>>,
      <<6830, 2, <<>>>>, <<6832, 1, <<>>>>, <<6863, 2, <<>>>>, <<6912, 1, <<>>>>,
      <<6989, 2, <<>>>>, <<6992, 1, <<>>>>, <<7039, 2, <<>>>>, <<7040, 1, <<>>>>,
      <<7156, 2, <<>>>>, <<7164, 1, <<>>>>, <<7224, 2, <<>>>>, <<7227, 1, <<>>>>,
      <<7242, 2, <<>>>>, <<7245, 1, <<>>>>, <<7296, 3, <<1074>>>>, <<7297, 3, <<1076>>>>,
      <<7298, 3, <<1086>>>>, <<7299, 3, <<1089>>>>, <<7300, 3, <<1090>>>>,
      <<7302, 3, <<1098>>>>, <<7303, 3, <<1123>>>>, <<7304, 3, <<42571>>>>, <<7305, 2, <<>>>>,
      <<7312, 3, <<4304>>>>, <<7313, 3, <<4305>>>>, <<7314, 3, <<4306>>>>,
      <<7315, 3, <<4307>>>>, <<7316, 3, <<4308>>>>, <<7317, 3, <<4309>>>>,
      <<7318, 3, <<4310>>>>, <<7319, 3, <<4311>>>>, <<7320, 3, <<4312>>>>,
      <<7321, 3, <<4313>>>>, <<7322, 3, <<4314>>>>, <<7323, 3, <<4315>>>>,
      <<7324, 3, <<4316>>>>, <<7325, 3, <<4317>>>>, <<7326, 3, <<4318>>>>,
      <<7327, 3, <<4319>>>>, <<7328, 3, <<4320>>>>, <<7329, 3, <<4321>>>>,
      <<7330, 3, <<4322>>>>, <<7331, 3, <<4323>>>>, <<7332, 3, <<4324>>>>,
      <<7333, 3, <<4325>>>>, <<7334, 3, <<4326>>>>, <<7335, 3, <<4327>>>>,
      <<7336, 3, <<4328>>>>, <<7337, 3, <<4329>>>>, <<7338, 3, <<4330>>>>,
      <<7339, 3, <<4331>>>>, <<7340, 3, <<4332>>>>, <<7341, 3, <<4333>>>>,
      <<7342, 3, <<4334>>>>, <<7343, 3, <<4335>>>>, <<7344, 3, <<4336>>>>,
      <<7345, 3, <<4337>>>>, <<7346, 3, <<4338>>>>, <<7347, 3, <<4339>>>>,
      <<7348, 3, <<4340>>>>, <<7349, 3, <<4341>>>>, <<7350, 3, <<4342>>>>,
      <<7351, 3, <<4343>>>>, <<7352, 3, <<4344>>>>, <<7353, 3, <<4345>>>>,
      <<7354, 3, <<4346>>>>, <<7355, 2, <<>>>>, <<7357, 3, <<4349>>>>, <<7358, 3, <<4350>>>>,
      <<7359, 3, <<4351>>>>, <<7360, 1, <<>>>>, <<7368, 2, <<>>>>, <<7376, 1, <<>>>>,
      <<7419, 2, <<>>>>, <<7424, 1, <<>>>>, <<7468, 3, <<97>>>>, <<7469, 3, <<230>>>>,
      <<7470, 3, <<98>>>>, <<7471, 1, <<>>>>, <<7472, 3, <<100>>>>, <<7473, 3, <<101>>>>,
      <<7474, 3, <<477>>>>, <<7475, 3, <<103>>>>, <<7476, 3, <<104>>>>, <<7477, 3, <<105>>>>,
      <<7478, 3, <<106>>>>, <<7479, 3, <<107>>>>, <<7480, 3, <<108>>>>, <<7481, 3, <<109>>>>,
      <<7482, 3, <<110>>>>, <<7483, 1, <<>>>>, <<7484, 3, <<111>>>>, <<7485, 3, <<547>>>>,
      <<7486, 3, <<112>>>>, <<7487, 3, <<114>>>>, <<7488, 3, <<116>>>>, <<7489, 3, <<117>>>>,
      <<7490, 3, <<119>>>>, <<7491, 3, <<97>>>>, <<7492, 3, <<592>>>>, <<7493, 3, <<593>>>>,
      <<7494, 3, <<7426>>>>, <<7495, 3, <<98>>>>, <<7496, 3, <<100>>>>, <<7497, 3, <<101>>>>,
      <<7498, 3, <<601>>>>, <<7499, 3, <<603>>>>, <<7500, 3, <<604>>>>, <<7501, 3, <<103>>>>,
      <<7502, 1, <<>>>>, <<7503, 3, <<107>>>>, <<7504, 3, <<109>>>>, <<7505, 3, <<331>>>>,
      <<7506, 3, <<111>>>>, <<7507, 3, <<596>>>>, <<7508, 3, <<7446>>>>, <<7509, 3, <<7447>>>>,
      <<7510, 3, <<112>>>>, <<7511, 3, <<116>>>>, <<7512, 3, <<117>>>>, <<7513, 3, <<7453>>>>,
      <<7514, 3, <<623>>>>, <<7515, 3, <<118>>>>, <<7516, 3, <<7461>>>>, <<7517, 3, <<946>>>>,
      <<7518, 3, <<947>>>>, <<7519, 3, <<948>>>>, <<7520, 3, <<966>>>>, <<7521, 3, <<967>>>>,
      <<7522, 3, <<105>>>>, <<7523, 3, <<114>>>>, <<7524, 3, <<117>>>>, <<7525, 3, <<118>>>>,
      <<7526, 3, <<946>>>>, <<7527, 3, <<947>>>>, <<7528, 3, <<961>>>>, <<7529, 3, <<966>>>>,
      <<7530, 3, <<967>>>>, <<7531, 1, <<>>>>, <<7544, 3, <<1085>>>>, <<7545, 1, <<>>>>,
      <<7579, 3, <<594>>>>, <<7580, 3, <<99>>>>, <<7581, 3, <<597>>>>, <<7582, 3, <<240>>>>,
      <<7583, 3, <<604>>>>, <<7584, 3, <<102>>>>, <<7585, 3, <<607>>>>, <<7586, 3, <<609>>>>,
      <<7587, 3, <<613>>>>, <<7588, 3, <<616>>>>, <<7589, 3, <<617>>>>, <<7590, 3, <<618>>>>,
      <<7591, 3, <<7547>>>>, <<7592, 3, <<669>>>>, <<7593, 3, <<621>>>>, <<7594, 3, <<7557>>>>,
      <<7595, 3, <<671>>>>, <<7596, 3, <<625>>>>, <<7597, 3, <<624>>>>, <<7598, 3, <<626>>>>,
      <<7599, 3, <<627>>>>, <<7600, 3, <<628>>>>, <<7601, 3, <<629>>>>, <<7602, 3, <<632>>>>,
      <<7603, 3, <<642>>>>, <<7604, 3, <<643>>>>, <<7605, 3, <<427>>>>, <<7606, 3, <<649>>>>,
      <<7607, 3, <<650>>>>, <<7608, 3, <<7452>>>>, <<7609, 3, <<651>>>>, <<7610, 3, <<652>>>>,
      <<7611, 3, <<122>>>>, <<7612, 3, <<656>>>>, <<7613, 3, <<657>>>>, <<7614, 3, <<658>>>>,
      <<7615, 3, <<952>>>>, <<7616, 1, <<>>>>, <<7680, 3, <<7681>>>>, <<7681, 1, <<>>>>,
      <<7682, 3, <<7683>>>>, <<7683, 1, <<>>>>, <<7684, 3, <<7685>>>>, <<7685, 1, <<>>>>,
      <<7686, 3, <<7687>>>>, <<7687, 1, <<>>>>, <<7688, 3, <<7689>>>>, <<7689, 1, <<>>>>,
      <<7690, 3, <<7691>>>>, <<7691, 1, <<>>>>, <<7692, 3, <<7693>>>>, <<7693, 1, <<>>>>,
      <<7694, 3, <<7695>>>>, <<7695, 1, <<>>>>, <<7696, 3, <<7697>>>>, <<7697, 1, <<>>>>,
      <<7698, 3, <<7699>>>>, <<7699, 1, <<>>>>, <<7700, 3, <<7701>>>>, <<7701, 1, <<>>>>,
      <<7702, 3, <<7703>>>>, <<7703, 1, <<>>>>, <<7704, 3, <<7705>>>>, <<7705, 1, <<>>>>,
      <<7706, 3, <<7707>>>>, <<7707, 1, <<>>>>, <<7708, 3, <<7709>>>>, <<7709, 1, <<>>>>,
      <<7710, 3, <<7711>>>>, <<7711, 1, <<>>>>, <<7712, 3, <<7713>>>>, <<7713, 1, <<>>>>,
      <<7714, 3, <<7715>>>>, <<7715, 1, <<>>>>, <<7716, 3, <<7717>>>>, <<7717, 1, <<>>>>,
      <<7718, 3, <<7719>>>>, <<7719, 1, <<>>>>, <<7720, 3, <<7721>>>>, <<7721, 1, <<>>>>,
      <<7722, 3, <<7723>>>>, <<7723, 1, <<>>>>, <<7724, 3, <<7725>>>>, <<7725, 1, <<>>>>,
      <<7726, 3, <<7727>>>>, <<7727, 1, <<>>>>, <<7728, 3, <<7729>>>>, <<7729, 1, <<>>>>,
      <<7730, 3, <<7731>>>>, <<7731, 1, <<>>>>, <<7732, 3, <<7733>>>>, <<7733, 1, <<>>>>,
      <<7734, 3, <<7735>>>>, <<7735, 1, <<>>>>, <<7736, 3, <<7737>>>>, <<7737, 1, <<>>>>,
      <<7738, 3, <<7739>>>>, <<7739, 1, <<>>>>, <<7740, 3, <<7741>>>>, <<7741, 1, <<>>>>,
      <<7742, 3, <<7743>>>>, <<7743, 1, <<>>>>, <<7744, 3, <<7745>>>>, <<7745, 1, <<>>>>,
      <<7746, 3, <<7747>>>>, <<7747, 1, <<>>>>, <<7748, 3, <<7749>>>>, <<7749, 1, <<>>>>,
      <<7750, 3, <<7751>>>>, <<7751, 1, <<>>>>, <<7752, 3, <<7753>>>>, <<7753, 1, <<>>>>,
      <<7754, 3, <<7755>>>>, <<7755, 1, <<>>>>, <<7756, 3, <<7757>>>>, <<7757, 1, <<>>>>,
      <<7758, 3, <<7759>>>>, <<7759, 1, <<>>>>, <<7760, 3, <<7761>>>>, <<7761, 1, <<>>>>,
      <<7762, 3, <<7763>>>>, <<7763, 1, <<>>>>, <<7764, 3, <<7765>>>>, <<7765, 1, <<>>>>,
      <<7766, 3, <<7767>>>>, <<7767, 1, <<>>>>, <<7768, 3, <<7769>>>>, <<7769, 1, <<>>>>,
      <<7770, 3, <<7771>>>>, <<7771, 1, <<>>>>, <<7772, 3, <<7773>>>>, <<7773, 1, <<>>>>,
      <<7774, 3, <<7775>>>>, <<7775, 1, <<>>>>, <<7776, 3, <<7777>>>>, <<7777, 1, <<>>>>,
      <<7778, 3, <<7779>>>>, <<7779, 1, <<>>>>, <<7780, 3, <<7781>>>>, <<7781, 1, <<>>>>,
      <<7782, 3, <<7783>>>>, <<7783, 1, <<>>>>, <<7784, 3, <<7785>>>>, <<7785, 1, <<>>>>,
      <<7786, 3, <<7787>>>>, <<7787, 1, <<>>>>, <<7788, 3, <<7789>>>>, <<7789, 1, <<>>>>,
      <<7790, 3, <<7791>>>>, <<7791, 1, <<>>>>, <<7792, 3, <<7793>>>>, <<7793, 1, <<>>>>,
      <<7794, 3, <<7795>>>>, <<7795, 1, <<>>>>, <<7796, 3, <<7797>>>>, <<7797, 1, <<>>>>,
      <<7798, 3, <<7799>>>>, <<7799, 1, <<>>>>, <<7800, 3, <<7801>>>>, <<7801, 1, <<>>>>,
      <<7802, 3, <<7803>>>>, <<7803, 1, <<>>>>, <<7804, 3, <<7805>>>>, <<7805, 1, <<>>>>,
      <<7806, 3, <<7807>>>>, <<7807, 1, <<>>>>, <<7808, 3, <<7809>>>>, <<7809, 1, <<>>>>,
      <<7810, 3, <<7811>>>>, <<7811, 1, <<>>>>, <<7812, 3, <<7813>>>>, <<7813, 1, <<>>>>,
      <<7814, 3, <<7815>>>>, <<7815, 1, <<>>>>, <<7816, 3, <<7817>>>>, <<7817, 1, <<>>>>,
      <<7818, 3, <<7819>>>>, <<7819, 1, <<>>>>, <<7820, 3, <<7821>>>>, <<7821, 1, <<>>>>,
      <<7822, 3, <<7823>>>>, <<7823, 1, <<>>>>, <<7824, 3, <<7825>>>>, <<7825, 1, <<>>>>,
      <<7826, 3, <<7827>>>>, <<7827, 1, <<>>>>, <<7828, 3, <<7829>>>>, <<7829, 1, <<>>>>,
      <<7834, 3, <<97, 702>>>>, <<7835, 3, <<7777>>>>, <<7836, 1, <<>>>>,
      <<7838, 3, <<115, 115>>>>, <<7839, 1, <<>>>>, <<7840, 3, <<7841>>>>, <<7841, 1, <<>>>>,
      <<7842, 3, <<7843>>>>, <<7843, 1, <<>>>>, <<7844, 3, <<7845>>>>, <<7845, 1, <<>>>>,
      <<7846, 3, <<7847>>>>, <<7847, 1, <<>>>>, <<7848, 3, <<7849>>>>, <<7849, 1, <<>>>>,
      <<7850, 3, <<7851>>>>, <<7851, 1, <<>>>>, <<7852, 3, <<7853>>>>, <<7853, 1, <<>>>>,
      <<7854, 3, <<7855>>>>, <<7855, 1, <<>>>>, <<7856, 3, <<7857>>>>, <<7857, 1, <<>>>>,
      <<7858, 3, <<7859>>>>, <<7859, 1, <<>>>>, <<7860, 3, <<7861>>>>, <<7861, 1, <<>>>>,
      <<7862, 3, <<7863>>>>, <<7863, 1, <<>>>>, <<7864, 3, <<7865>>>>, <<7865, 1, <<>>>>,
      <<7866, 3, <<7867>>>>, <<7867, 1, <<>>>>, <<7868, 3, <<7869>>>>, <<7869, 1, <<>>>>,
      <<7870, 3, <<7871>>>>, <<7871, 1, <<>>>>, <<7872, 3, <<7873>>>>, <<7873, 1, <<>>>>,
      <<7874, 3, <<7875>>>>, <<7875, 1, <<>>>>, <<7876, 3, <<7877>>>>, <<7877, 1, <<>>>>,
      <<7878, 3, <<7879>>>>, <<7879, 1, <<>>>>, <<7880, 3, <<7881>>>>, <<7881, 1, <<>>>>,
      <<7882, 3, <<7883>>>>, <<7883, 1, <<>>>>, <<7884, 3, <<7885>>>>, <<7885, 1, <<>>>>,
      <<7886, 3, <<7887>>>>, <<7887, 1, <<>>>>, <<7888, 3, <<7889>>>>, <<7889, 1, <<>>>>,
      <<7890, 3, <<7891>>>>, <<7891, 1, <<>>>>, <<7892, 3, <<7893>>>>, <<7893, 1, <<>>>>,
      <<7894, 3, <<7895>>>>, <<7895, 1, <<>>>>, <<7896, 3, <<7897>>>>, <<7897, 1, <<>>>>,
      <<7898, 3, <<7899>>>>, <<7899, 1, <<>>>>, <<7900, 3, <<7901>>>>, <<7901, 1, <<>>>>,
      <<7902, 3, <<7903>>>>, <<7903, 1, <<>>>>, <<7904, 3, <<7905>>>>, <<7905, 1, <<>>>>,
      <<7906, 3, <<7907>>>>, <<7907, 1, <<>>>>, <<7908, 3, <<7909>>>>, <<7909, 1, <<>>>>,
      <<7910, 3, <<7911>>>>, <<7911, 1, <<>>>>, <<7912, 3, <<7913>>>>, <<7913, 1, <<>>>>,
      <<7914, 3, <<7915>>>>, <<7915, 1, <<>>>>, <<7916, 3, <<7917>>>>, <<7917, 1, <<>>>>,
      <<7918, 3, <<7919>>>>, <<7919, 1, <<>>>>, <<7920, 3, <<7921>>>>, <<7921, 1, <<>>>>,
      <<7922, 3, <<7923>>>>, <<7923, 1, <<>>>>, <<7924, 3, <<7925>>>>, <<7925, 1, <<>>>>,
      <<7926, 3, <<7927>>>>, <<7927, 1, <<>>>>, <<7928, 3, <<7929>>>>, <<7929, 1, <<>>>>,
      <<7930, 3, <<7931>>>>, <<7931, 1, <<>>>>, <<7932, 3, <<7933>>>>, <<7933, 1, <<>>>>,
      <<7934, 3, <<7935>>>>, <<7935, 1, <<>>>>, <<7944, 3, <<7936>>>>, <<7945, 3, <<7937>>>>,
      <<7946, 3, <<7938>>>>, <<7947, 3, <<7939>>>>, <<7948, 3, <<7940>>>>,
      <<7949, 3, <<7941>>>>, <<7950, 3, <<7942>>>>, <<7951, 3, <<7943>>>>, <<7952, 1, <<>>>>,
      <<7958, 2, <<>>>>, <<7960, 3, <<7952>>>>, <<7961, 3, <<7953>>>>, <<7962, 3, <<7954>>>>,
      <<7963, 3, <<7955>>>>, <<7964, 3, <<7956>>>>, <<7965, 3, <<7957>>>>, <<7966, 2, <<>>>>,
      <<7968, 1, <<>>>>, <<7976, 3, <<7968>>>>, <<7977, 3, <<7969>>>>, <<7978, 3, <<7970>>>>,
      <<7979, 3, <<7971>>>>, <<7980, 3, <<7972>>>>, <<7981, 3, <<7973>>>>,
      <<7982, 3, <<7974>>>>, <<7983, 3, <<7975>>>>, <<7984, 1, <<>>>>, <<7992, 3, <<7984>>>>,
      <<7993, 3, <<7985>>>>, <<7994, 3, <<7986>>>>, <<7995, 3, <<7987>>>>,
      <<7996, 3, <<7988>>>>, <<7997, 3, <<7989>>>>, <<7998, 3, <<7990>>>>,
      <<7999, 3, <<7991>>>>, <<8000, 1, <<>>>>, <<8006, 2, <<>>>>, <<8008, 3, <<8000>>>>,
      <<8009, 3, <<8001>>>>, <<8010, 3, <<8002>>>>, <<8011, 3, <<8003>>>>,
      <<8012, 3, <<8004>>>>, <<8013, 3, <<8005>>>>, <<8014, 2, <<>>>>, <<8016, 1, <<>>>>,
      <<8024, 2, <<>>>>, <<8025, 3, <<8017>>>>, <<8026, 2, <<>>>>, <<8027, 3, <<8019>>>>,
      <<8028, 2, <<>>>>, <<8029, 3, <<8021>>>>, <<8030, 2, <<>>>>, <<8031, 3, <<8023>>>>,
      <<8032, 1, <<>>>>, <<8040, 3, <<8032>>>>, <<8041, 3, <<8033>>>>, <<8042, 3, <<8034>>>>,
      <<8043, 3, <<8035>>>>, <<8044, 3, <<8036>>>>, <<8045, 3, <<8037>>>>,
      <<8046, 3, <<8038>>>>, <<8047, 3, <<8039>>>>, <<8048, 1, <<>>>>, <<8049, 3, <<940>>>>,
      <<8050, 1, <<>>>>, <<8051, 3, <<941>>>>, <<8052, 1, <<>>>>, <<8053, 3, <<942>>>>,
      <<8054, 1, <<>>>>, <<8055, 3, <<943>>>>, <<8056, 1, <<>>>>, <<8057, 3, <<972>>>>,
      <<8058, 1, <<>>>>, <<8059, 3, <<973>>>>, <<8060, 1, <<>>>>, <<8061, 3, <<974>>>>,
      <<8062, 2, <<>>>>, <<8064, 3, <<7936, 953>>>>, <<8065, 3, <<7937, 953>>>>,
      <<8066, 3, <<7938, 953>>>>, <<8067, 3, <<7939, 953>>>>, <<8068, 3, <<7940, 953>>>>,
      <<8069, 3, <<7941, 953>>>>, <<8070, 3, <<7942, 953>>>>, <<8071, 3, <<7943, 953>>>>,
      <<8072, 3, <<7936, 953>>>>, <<8073, 3, <<7937, 953>>>>, <<8074, 3, <<7938, 953>>>>,
      <<8075, 3, <<7939, 953>>>>, <<8076, 3, <<7940, 953>>>>, <<8077, 3, <<7941, 953>>>>,
      <<8078, 3, <<7942, 953>>>>, <<8079, 3, <<7943, 953>>>>, <<8080, 3, <<7968, 953>>>>,
      <<8081, 3, <<7969, 953>>>>, <<8082, 3, <<7970, 953>>>>, <<8083, 3, <<7971, 953>>>>,
      <<8084, 3, <<7972, 953>>>>, <<8085, 3, <<7973, 953>>>>, <<8086, 3, <<7974, 953>>>>,
      <<8087, 3, <<7975, 953>>>>, <<8088, 3, <<7968, 953>>>>, <<8089, 3, <<7969, 953>>>>,
      <<8090, 3, <<7970, 953>>>>, <<8091, 3, <<7971, 953>>>>, <<8092, 3, <<7972, 953>>>>,
      <<8093, 3, <<7973, 953>>>>, <<8094, 3, <<7974, 953>>>>, <<8095, 3, <<7975, 953>>>>,
      <<8096, 3, <<8032, 953>>>>, <<8097, 3, <<8033, 953>>>>, <<8098, 3, <<8034, 953>>>>,
      <<8099, 3, <<8035, 953>>>>, <<8100, 3, <<8036, 953>>>>, <<8101, 3, <<8037, 953>>>>,
      <<8102, 3, <<8038, 953>>>>, <<8103, 3, <<8039, 953>>>>, <<8104, 3, <<8032, 953>>>>,
      <<8105, 3, <<8033, 953>>>>, <<8106, 3, <<8034, 953>>>>, <<8107, 3, <<8035, 953>>>>,
      <<8108, 3, <<8036, 953>>>>, <<8109, 3, <<8037, 953>>>>, <<8110, 3, <<8038, 953>>>>,
      <<8111, 3, <<8039, 953>>>>, <<8112, 1, <<>>>>, <<8114, 3, <<8048, 953>>>>,
      <<8115, 3, <<945, 953>>>>, <<8116, 3, <<940, 953>>>>, <<8117, 2, <<>>>>,
      <<8118, 1, <<>>>>, <<8119, 3, <<8118, 953>>>>, <<8120, 3, <<8112>>>>,
      <<8121, 3, <<8113>>>>, <<8122, 3, <<8048>>>>, <<8123, 3, <<940>>>>,
      <<8124, 3, <<945, 953>>>>, <<8125, 3, <<32, 787>>>>, <<8126, 3, <<953>>>>,
      <<8127, 3, <<32, 787>>>>, <<8128, 3, <<32, 834>>>>, <<8129, 3, <<32, 776, 834>>>>,
      <<8130, 3, <<8052, 953>>>>, <<8131, 3, <<951, 953>>>>, <<8132, 3, <<942, 953>>>>,
      <<8133, 2, <<>>>>, <<8134, 1, <<>>>>, <<8135, 3, <<8134, 953>>>>, <<8136, 3, <<8050>>>>,
      <<8137, 3, <<941>>>>, <<8138, 3, <<8052>>>>, <<8139, 3, <<942>>>>,
      <<8140, 3, <<951, 953>>>>, <<8141, 3, <<32, 787, 768>>>>, <<8142, 3, <<32, 787, 769>>>>,
      <<8143, 3, <<32, 787, 834>>>>, <<8144, 1, <<>>>>, <<8147, 3, <<912>>>>, <<8148, 2, <<>>>>,
      <<8150, 1, <<>>>>, <<8152, 3, <<8144>>>>, <<8153, 3, <<8145>>>>, <<8154, 3, <<8054>>>>,
      <<8155, 3, <<943>>>>, <<8156, 2, <<>>>>, <<8157, 3, <<32, 788, 768>>>>,
      <<8158, 3, <<32, 788, 769>>>>, <<8159, 3, <<32, 788, 834>>>>, <<8160, 1, <<>>>>,
      <<8163, 3, <<944>>>>, <<8164, 1, <<>>>>, <<8168, 3, <<8160>>>>, <<8169, 3, <<8161>>>>,
      <<8170, 3, <<8058>>>>, <<8171, 3, <<973>>>>, <<8172, 3, <<8165>>>>,
      <<8173, 3, <<32, 776, 768>>>>, <<8174, 3, <<32, 776, 769>>>>, <<8175, 3, <<96>>>>,
      <<8176, 2, <<>>>>, <<8178, 3, <<8060, 953>>>>, <<8179, 3, <<969, 953>>>>,
      <<8180, 3, <<974, 953>>>>, <<8181, 2, <<>>>>, <<8182, 1, <<>>>>,
      <<8183, 3, <<8182, 953>>>>, <<8184, 3, <<8056>>>>, <<8185, 3, <<972>>>>,
      <<8186, 3, <<8060>>>>, <<8187, 3, <<974>>>>, <<8188, 3, <<969, 953>>>>,
      <<8189, 3, <<32, 769>>>>, <<8190, 3, <<32, 788>>>>, <<8191, 2, <<>>>>,
      <<8192, 3, <<32>>>>, <<8203, 0, <<>>>>, <<8204, 1, <<>>>>, <<8206, 2, <<>>>>,
      <<8208, 1, <<>>>>, <<8209, 3, <<8208>>>>, <<8210, 1, <<>>>>, <<8215, 3, <<32, 819>>>>,
      <<8216, 1, <<>>>>, <<8228, 2, <<>>>>, <<8231, 1, <<>>>>, <<8232, 2, <<>>>>,
      <<8239, 3, <<32>>>>, <<8240, 1, <<>>>>, <<8243, 3, <<8242, 8242>>>>,
      <<8244, 3, <<8242, 8242, 8242>>>>, <<8245, 1, <<>>>>, <<8246, 3, <<8245, 8245>>>>,
      <<8247, 3, <<8245, 8245, 8245>>>>, <<8248, 1, <<>>>>, <<8252, 3, <<33, 33>>>>,
      <<8253, 1, <<>>>>, <<8254, 3, <<32, 773>>>>, <<8255, 1, <<>>>>, <<8263, 3, <<63, 63>>>>,
      <<8264, 3, <<63, 33>>>>, <<8265, 3, <<33, 63>>>>, <<8266, 1, <<>>>>,
      <<8279, 3, <<8242, 8242, 8242, 8242>>>>, <<8280, 1, <<>>>>, <<8287, 3, <<32>>>>,
      <<8288, 0, <<>>>>, <<8289, 2, <<>>>>, <<8292, 0, <<>>>>, <<8293, 2, <<>>>>,
      <<8304, 3, <<48>>>>, <<8305, 3, <<105>>>>, <<8306, 2, <<>>>>, <<8308, 3, <<52>>>>,
      <<8309, 3, <<53>>>>, <<8310, 3, <<54>>>>, <<8311, 3, <<55>>>>, <<8312, 3, <<56>>>>,
      <<8313, 3, <<57>>>>, <<8314, 3, <<43>>>>, <<8315, 3, <<8722>>>>, <<8316, 3, <<61>>>>,
      <<8317, 3, <<40>>>>, <<8318, 3, <<41>>>>, <<8319, 3, <<110>>>>, <<8320, 3, <<48>>>>,
      <<8321, 3, <<49>>>>, <<8322, 3, <<50>>>>, <<8323, 3, <<51>>>>, <<8324, 3, <<52>>>>,
      <<8325, 3, <<53>>>>, <<8326, 3, <<54>>>>, <<8327, 3, <<55>>>>, <<8328, 3, <<56>>>>,
      <<8329, 3, <<57>>>>, <<8330, 3, <<43>>>>, <<8331, 3, <<8722>>>>, <<8332, 3, <<61>>>>,
      <<8333, 3, <<40>>>>, <<8334, 3, <<41>>>>, <<8335, 2, <<>>>>, <<8336, 3, <<97>>>>,
      <<8337, 3, <<101>>>>, <<8338, 3, <<111>>>>, <<8339, 3, <<120>>>>, <<8340, 3, <<601>>>>,
      <<8341, 3, <<104>>>>, <<8342, 3, <<107>>>>, <<8343, 3, <<108>>>>, <<8344, 3, <<109>>>>,
      <<8345, 3, <<110>>>>, <<8346, 3, <<112>>>>, <<8347, 3, <<115>>>>, <<8348, 3, <<116>>>>,
      <<8349, 2, <<>>>>, <<8352, 1, <<>>>>, <<8360, 3, <<114, 115>>>>, <<8361, 1, <<>>>>,
      <<8385, 2, <<>>>>, <<8400, 1, <<>>>>, <<8433, 2, <<>>>>, <<8448, 3, <<97, 47, 99>>>>,
      <<8449, 3, <<97, 47, 115>>>>, <<8450, 3, <<99>>>>, <<8451, 3, <<176, 99>>>>,
      <<8452, 1, <<>>>>, <<8453, 3, <<99, 47, 111>>>>, <<8454, 3, <<99, 47, 117>>>>,
      <<8455, 3, <<603>>>>, <<8456, 1, <<>>>>, <<8457, 3, <<176, 102>>>>, <<8458, 3, <<103>>>>,
      <<8459, 3, <<104>>>>, <<8463, 3, <<295>>>>, <<8464, 3, <<105>>>>, <<8466, 3, <<108>>>>,
      <<8468, 1, <<>>>>, <<8469, 3, <<110>>>>, <<8470, 3, <<110, 111>>>>, <<8471, 1, <<>>>>,
      <<8473, 3, <<112>>>>, <<8474, 3, <<113>>>>, <<8475, 3, <<114>>>>, <<8478, 1, <<>>>>,
      <<8480, 3, <<115, 109>>>>, <<8481, 3, <<116, 101, 108>>>>, <<8482, 3, <<116, 109>>>>,
      <<8483, 1, <<>>>>, <<8484, 3, <<122>>>>, <<8485, 1, <<>>>>, <<8486, 3, <<969>>>>,
      <<8487, 1, <<>>>>, <<8488, 3, <<122>>>>, <<8489, 1, <<>>>>, <<8490, 3, <<107>>>>,
      <<8491, 3, <<229>>>>, <<8492, 3, <<98>>>>, <<8493, 3, <<99>>>>, <<8494, 1, <<>>>>,
      <<8495, 3, <<101>>>>, <<8497, 3, <<102>>>>, <<8498, 2, <<>>>>, <<8499, 3, <<109>>>>,
      <<8500, 3, <<111>>>>, <<8501, 3, <<1488>>>>, <<8502, 3, <<1489>>>>, <<8503, 3, <<1490>>>>,
      <<8504, 3, <<1491>>>>, <<8505, 3, <<105>>>>, <<8506, 1, <<>>>>,
      <<8507, 3, <<102, 97, 120>>>>, <<8508, 3, <<960>>>>, <<8509, 3, <<947>>>>,
      <<8511, 3, <<960>>>>, <<8512, 3, <<8721>>>>, <<8513, 1, <<>>>>, <<8517, 3, <<100>>>>,
      <<8519, 3, <<101>>>>, <<8520, 3, <<105>>>>, <<8521, 3, <<106>>>>, <<8522, 1, <<>>>>,
      <<8528, 3, <<49, 8260, 55>>>>, <<8529, 3, <<49, 8260, 57>>>>,
      <<8530, 3, <<49, 8260, 49, 48>>>>, <<8531, 3, <<49, 8260, 51>>>>,
      <<8532, 3, <<50, 8260, 51>>>>, <<8533, 3, <<49, 8260, 53>>>>,
      <<8534, 3, <<50, 8260, 53>>>>, <<8535, 3, <<51, 8260, 53>>>>,
      <<8536, 3, <<52, 8260, 53>>>>, <<8537, 3, <<49, 8260, 54>>>>,
      <<8538, 3, <<53, 8260, 54>>>>, <<8539, 3, <<49, 8260, 56>>>>,
      <<8540, 3, <<51, 8260, 56>>>>, <<8541, 3, <<53, 8260, 56>>>>,
      <<8542, 3, <<55, 8260, 56>>>>, <<8543, 3, <<49, 8260>>>>, <<8544, 3, <<105>>>>,
      <<8545, 3, <<105, 105>>>>, <<8546, 3, <<105, 105, 105>>>>, <<8547, 3, <<105, 118>>>>,
      <<8548, 3, <<118>>>>, <<8549, 3, <<118, 105>>>>, <<8550, 3, <<118, 105, 105>>>>,
      <<8551, 3, <<118, 105, 105, 105>>>>, <<8552, 3, <<105, 120>>>>, <<8553, 3, <<120>>>>,
      <<8554, 3, <<120, 105>>>>, <<8555, 3, <<120, 105, 105>>>>, <<8556, 3, <<108>>>>,
      <<8557, 3, <<99>>>>, <<8558, 3, <<100>>>>, <<8559, 3, <<109>>>>, <<8560, 3, <<105>>>>,
      <<8561, 3, <<105, 105>>>>, <<8562, 3, <<105, 105, 105>>>>, <<8563, 3, <<105, 118>>>>,
      <<8564, 3, <<118>>>>, <<8565, 3, <<118, 105>>>>, <<8566, 3, <<118, 105, 105>>>>,
      <<8567, 3, <<118, 105, 105, 105>>>>, <<8568, 3, <<105, 120>>>>, <<8569, 3, <<120>>>>,
      <<8570, 3, <<120, 105>>>>, <<8571, 3, <<120, 105, 105>>>>, <<8572, 3, <<108>>>>,
      <<8573, 3, <<99>>>>, <<8574, 3, <<100>>>>, <<8575, 3, <<109>>>>, <<8576, 1, <<>>>>,
      <<8579, 2, <<>>>>, <<8580, 1, <<>>>>, <<8585, 3, <<48, 8260, 51>>>>, <<8586, 1, <<>>>>,
      <<8588, 2, <<>>>>, <<8592, 1, <<>>>>, <<8748, 3, <<8747, 8747>>>>,
      <<8749, 3, <<8747, 8747, 8747>>>>, <<8750, 1, <<>>>>, <<8751, 3, <<8750, 8750>>>>,
      <<8752, 3, <<8750, 8750, 8750>>>>, <<8753, 1, <<>>>>, <<9001, 3, <<12296>>>>,
      <<9002, 3, <<12297>>>>, <<9003, 1, <<>>>>, <<9255, 2, <<>>>>, <<9280, 1, <<>>>>,
      <<9291, 2, <<>>>>, <<9312, 3, <<49>>>>, <<9313, 3, <<50>>>>, <<9314, 3, <<51>>>>,
      <<9315, 3, <<52>>>>, <<9316, 3, <<53>>>>, <<9317, 3, <<54>>>>, <<9318, 3, <<55>>>>,
      <<9319, 3, <<56>>>>, <<9320, 3, <<57>>>>, <<9321, 3, <<49, 48>>>>,
      <<9322, 3, <<49, 49>>>>, <<9323, 3, <<49, 50>>>>, <<9324, 3, <<49, 51>>>>,
      <<9325, 3, <<49, 52>>>>, <<9326, 3, <<49, 53>>>>, <<9327, 3, <<49, 54>>>>,
      <<9328, 3, <<49, 55>>>>, <<9329, 3, <<49, 56>>>>, <<9330, 3, <<49, 57>>>>,
      <<9331, 3, <<50, 48>>>>, <<9332, 3, <<40, 49, 41>>>>, <<9333, 3, <<40, 50, 41>>>>,
      <<9334, 3, <<40, 51, 41>>>>, <<9335, 3, <<40, 52, 41>>>>, <<9336, 3, <<40, 53, 41>>>>,
      <<9337, 3, <<40, 54, 41>>>>, <<9338, 3, <<40, 55, 41>>>>, <<9339, 3, <<40, 56, 41>>>>,
      <<9340, 3, <<40, 57, 41>>>>, <<9341, 3, <<40, 49, 48, 41>>>>,
      <<9342, 3, <<40, 49, 49, 41>>>>, <<9343, 3, <<40, 49, 50, 41>>>>,
      <<9344, 3, <<40, 49, 51, 41>>>>, <<9345, 3, <<40, 49, 52, 41>>>>,
      <<9346, 3, <<40, 49, 53, 41>>>>, <<9347, 3, <<40, 49, 54, 41>>>>,
      <<9348, 3, <<40, 49, 55, 41>>>>, <<9349, 3, <<40, 49, 56, 41>>>>,
      <<9350, 3, <<40, 49, 57, 41>>>>, <<9351, 3, <<40, 50, 48, 41>>>>, <<9352, 2, <<>>>>,
      <<9372, 3, <<40, 97, 41>>>>, <<9373, 3, <<40, 98, 41>>>>, <<9374, 3, <<40, 99, 41>>>>,
      <<9375, 3, <<40, 100, 41>>>>, <<9376, 3, <<40, 101, 41>>>>, <<9377, 3, <<40, 102, 41>>>>,
      <<9378, 3, <<40, 103, 41>>>>, <<9379, 3, <<40, 104, 41>>>>, <<9380, 3, <<40, 105, 41>>>>,
      <<9381, 3, <<40, 106, 41>>>>, <<9382, 3, <<40, 107, 41>>>>, <<9383, 3, <<40, 108, 41>>>>,
      <<9384, 3, <<40, 109, 41>>>>, <<9385, 3, <<40, 110, 41>>>>, <<9386, 3, <<40, 111, 41>>>>,
      <<9387, 3, <<40, 112, 41>>>>, <<9388, 3, <<40, 113, 41>>>>, <<9389, 3, <<40, 114, 41>>>>,
      <<9390, 3, <<40, 115, 41>>>>, <<9391, 3, <<40, 116, 41>>>>, <<9392, 3, <<40, 117, 41>>>>,
      <<9393, 3, <<40, 118, 41>>>>, <<9394, 3, <<40, 119, 41>>>>, <<9395, 3, <<40, 120, 41>>>>,
      <<9396, 3, <<40, 121, 41>>>>, <<9397, 3, <<40, 122, 41>>>>, <<9398, 3, <<97>>>>,
      <<9399, 3, <<98>>>>, <<9400, 3, <<99>>>>, <<9401, 3, <<100>>>>, <<9402, 3, <<101>>>>,
      <<9403, 3, <<102>>>>, <<9404, 3, <<103>>>>, <<9405, 3, <<104>>>>, <<9406, 3, <<105>>>>,
      <<9407, 3, <<106>>>>, <<9408, 3, <<107>>>>, <<9409, 3, <<108>>>>, <<9410, 3, <<109>>>>,
      <<9411, 3, <<110>>>>, <<9412, 3, <<111>>>>, <<9413, 3, <<112>>>>, <<9414, 3, <<113>>>>,
      <<9415, 3, <<114>>>>, <<9416, 3, <<115>>>>, <<9417, 3, <<116>>>>, <<9418, 3, <<117>>>>,
      <<9419, 3, <<118>>>>, <<9420, 3, <<119>>>>, <<9421, 3, <<120>>>>, <<9422, 3, <<121>>>>,
      <<9423, 3, <<122>>>>, <<9424, 3, <<97>>>>, <<9425, 3, <<98>>>>, <<9426, 3, <<99>>>>,
      <<9427, 3, <<100>>>>, <<9428, 3, <<101>>>>, <<9429, 3, <<102>>>>, <<9430, 3, <<103>>>>,
      <<9431, 3, <<104>>>>, <<9432, 3, <<105>>>>, <<9433, 3, <<106>>>>, <<9434, 3, <<107>>>>,
      <<9435, 3, <<108>>>>, <<9436, 3, <<109>>>>, <<9437, 3, <<110>>>>, <<9438, 3, <<111>>>>,
      <<9439, 3, <<112>>>>, <<9440, 3, <<113>>>>, <<9441, 3, <<114>>>>, <<9442, 3, <<115>>>>,
      <<9443, 3, <<116>>>>, <<9444, 3, <<117>>>>, <<9445, 3, <<118>>>>, <<9446, 3, <<119>>>>,
      <<9447, 3, <<120>>>>, <<9448, 3, <<121>>>>, <<9449, 3, <<122>>>>, <<9450, 3, <<48>>>>,
      <<9451, 1, <<>>>>, <<10764, 3, <<8747, 8747, 8747, 8747>>>>, <<10765, 1, <<>>>>,
      <<10868, 3, <<58, 58, 61>>>>, <<10869, 3, <<61, 61>>>>, <<10870, 3, <<61, 61, 61>>>>,
      <<10871, 1, <<>>>>, <<10972, 3, <<10973, 824>>>>, <<10973, 1, <<>>>>, <<11124, 2, <<>>>>,
      <<11126, 1, <<>>>>, <<11158, 2, <<>>>>, <<11159, 1, <<>>>>, <<11264, 3, <<11312>>>>,
      <<11265, 3, <<11313>>>>, <<11266, 3, <<11314>>>>, <<11267, 3, <<11315>>>>,
      <<11268, 3, <<11316>>>>, <<11269, 3, <<11317>>>>, <<11270, 3, <<11318>>>>,
      <<11271, 3, <<11319>>>>, <<11272, 3, <<11320>>>>, <<11273, 3, <<11321>>>>,
      <<11274, 3, <<11322>>>>, <<11275, 3, <<11323>>>>, <<11276, 3, <<11324>>>>,
      <<11277, 3, <<11325>>>>, <<11278, 3, <<11326>>>>, <<11279, 3, <<11327>>>>,
      <<11280, 3, <<11328>>>>, <<11281, 3, <<11329>>>>, <<11282, 3, <<11330>>>>,
      <<11283, 3, <<11331>>>>, <<11284, 3, <<11332>>>>, <<11285, 3, <<11333>>>>,
      <<11286, 3, <<11334>>>>, <<11287, 3, <<11335>>>>, <<11288, 3, <<11336>>>>,
      <<11289, 3, <<11337>>>>, <<11290, 3, <<11338>>>>, <<11291, 3, <<11339>>>>,
      <<11292, 3, <<11340>>>>, <<11293, 3, <<11341>>>>, <<11294, 3, <<11342>>>>,
      <<11295, 3, <<11343>>>>, <<11296, 3, <<11344>>>>, <<11297, 3, <<11345>>>>,
      <<11298, 3, <<11346>>>>, <<11299, 3, <<11347>>>>, <<11300, 3, <<11348>>>>,
      <<11301, 3, <<11349>>>>, <<11302, 3, <<11350>>>>, <<11303, 3, <<11351>>>>,
      <<11304, 3, <<11352>>>>, <<11305, 3, <<11353>>>>, <<11306, 3, <<11354>>>>,
      <<11307, 3, <<11355>>>>, <<11308, 3, <<11356>>>>, <<11309, 3, <<11357>>>>,
      <<11310, 3, <<11358>>>>, <<11311, 3, <<11359>>>>, <<11312, 1, <<>>>>,
      <<11360, 3, <<11361>>>>, <<11361, 1, <<>>>>, <<11362, 3, <<619>>>>,
      <<11363, 3, <<7549>>>>, <<11364, 3, <<637>>>>, <<11365, 1, <<>>>>,
      <<11367, 3, <<11368>>>>, <<11368, 1, <<>>>>, <<11369, 3, <<11370>>>>, <<11370, 1, <<>>>>,
      <<11371, 3, <<11372>>>>, <<11372, 1, <<>>>>, <<11373, 3, <<593>>>>, <<11374, 3, <<625>>>>,
      <<11375, 3, <<592>>>>, <<11376, 3, <<594>>>>, <<11377, 1, <<>>>>, <<11378, 3, <<11379>>>>,
      <<11379, 1, <<>>>>, <<11381, 3, <<11382>>>>, <<11382, 1, <<>>>>, <<11388, 3, <<106>>>>,
      <<11389, 3, <<118>>>>, <<11390, 3, <<575>>>>, <<11391, 3, <<576>>>>,
      <<11392, 3, <<11393>>>>, <<11393, 1, <<>>>>, <<11394, 3, <<11395>>>>, <<11395, 1, <<>>>>,
      <<11396, 3, <<11397>>>>, <<11397, 1, <<>>>>, <<11398, 3, <<11399>>>>, <<11399, 1, <<>>>>,
      <<11400, 3, <<11401>>>>, <<11401, 1, <<>>>>, <<11402, 3, <<11403>>>>, <<11403, 1, <<>>>>,
      <<11404, 3, <<11405>>>>, <<11405, 1, <<>>>>, <<11406, 3, <<11407>>>>, <<11407, 1, <<>>>>,
      <<11408, 3, <<11409>>>>, <<11409, 1, <<>>>>, <<11410, 3, <<11411>>>>, <<11411, 1, <<>>>>,
      <<11412, 3, <<11413>>>>, <<11413, 1, <<>>>>, <<11414, 3, <<11415>>>>, <<11415, 1, <<>>>>,
      <<11416, 3, <<11417>>>>, <<11417, 1, <<>>>>, <<11418, 3, <<11419>>>>, <<11419, 1, <<>>>>,
      <<11420, 3, <<11421>>>>, <<11421, 1, <<>>>>, <<11422, 3, <<11423>>>>, <<11423, 1, <<>>>>,
      <<11424, 3, <<11425>>>>, <<11425, 1, <<>>>>, <<11426, 3, <<11427>>>>, <<11427, 1, <<>>>>,
      <<11428, 3, <<11429>>>>, <<11429, 1, <<>>>>, <<11430, 3, <<11431>>>>, <<11431, 1, <<>>>>,
      <<11432, 3, <<11433>>>>, <<11433, 1, <<>>>>, <<11434, 3, <<11435>>>>, <<11435, 1, <<>>>>,
      <<11436, 3, <<11437>>>>, <<11437, 1, <<>>>>, <<11438, 3, <<11439>>>>, <<11439, 1, <<>>>>,
      <<11440, 3, <<11441>>>>, <<11441, 1, <<>>>>, <<11442, 3, <<11443>>>>, <<11443, 1, <<>>>>,
      <<11444, 3, <<11445>>>>, <<11445, 1, <<>>>>, <<11446, 3, <<11447>>>>, <<11447, 1, <<>>>>,
      <<11448, 3, <<11449>>>>, <<11449, 1, <<>>>>, <<11450, 3, <<11451>>>>, <<11451, 1, <<>>>>,
      <<11452, 3, <<11453>>>>, <<11453, 1, <<>>>>, <<11454, 3, <<11455>>>>, <<11455, 1, <<>>>>,
      <<11456, 3, <<11457>>>>, <<11457, 1, <<>>>>, <<11458, 3, <<11459>>>>, <<11459, 1, <<>>>>,
      <<11460, 3, <<11461>>>>, <<11461, 1, <<>>>>, <<11462, 3, <<11463>>>>, <<11463, 1, <<>>>>,
      <<11464, 3, <<11465>>>>, <<11465, 1, <<>>>>, <<11466, 3, <<11467>>>>, <<11467, 1, <<>>>>,
      <<11468, 3, <<11469>>>>, <<11469, 1, <<>>>>, <<11470, 3, <<11471>>>>, <<11471, 1, <<>>>>,
      <<11472, 3, <<11473>>>>, <<11473, 1, <<>>>>, <<11474, 3, <<11475>>>>, <<11475, 1, <<>>>>,
      <<11476, 3, <<11477>>>>, <<11477, 1, <<>>>>, <<11478, 3, <<11479>>>>, <<11479, 1, <<>>>>,
      <<11480, 3, <<11481>>>>, <<11481, 1, <<>>>>, <<11482, 3, <<11483>>>>, <<11483, 1, <<>>>>,
      <<11484, 3, <<11485>>>>, <<11485, 1, <<>>>>, <<11486, 3, <<11487>>>>, <<11487, 1, <<>>>>,
      <<11488, 3, <<11489>>>>, <<11489, 1, <<>>>>, <<11490, 3, <<11491>>>>, <<11491, 1, <<>>>>,
      <<11499, 3, <<11500>>>>, <<11500, 1, <<>>>>, <<11501, 3, <<11502>>>>, <<11502, 1, <<>>>>,
      <<11506, 3, <<11507>>>>, <<11507, 1, <<>>>>, <<11508, 2, <<>>>>, <<11513, 1, <<>>>>,
      <<11558, 2, <<>>>>, <<11559, 1, <<>>>>, <<11560, 2, <<>>>>, <<11565, 1, <<>>>>,
      <<11566, 2, <<>>>>, <<11568, 1, <<>>>>, <<11624, 2, <<>>>>, <<11631, 3, <<11617>>>>,
      <<11632, 1, <<>>>>, <<11633, 2, <<>>>>, <<11647, 1, <<>>>>, <<11671, 2, <<>>>>,
      <<11680, 1, <<>>>>, <<11687, 2, <<>>>>, <<11688, 1, <<>>>>, <<11695, 2, <<>>>>,
      <<11696, 1, <<>>>>, <<11703, 2, <<>>>>, <<11704, 1, <<>>>>, <<11711, 2, <<>>>>,
      <<11712, 1, <<>>>>, <<11719, 2, <<>>>>, <<11720, 1, <<>>>>, <<11727, 2, <<>>>>,
      <<11728, 1, <<>>>>, <<11735, 2, <<>>>>, <<11736, 1, <<>>>>, <<11743, 2, <<>>>>,
      <<11744, 1, <<>>>>, <<11870, 2, <<>>>>, <<11904, 1, <<>>>>, <<11930, 2, <<>>>>,
      <<11931, 1, <<>>>>, <<11935, 3, <<27597>>>>, <<11936, 1, <<>>>>, <<12019, 3, <<40863>>>>,
      <<12020, 2, <<>>>>, <<12032, 3, <<19968>>>>, <<12033, 3, <<20008>>>>,
      <<12034, 3, <<20022>>>>, <<12035, 3, <<20031>>>>, <<12036, 3, <<20057>>>>,
      <<12037, 3, <<20101>>>>, <<12038, 3, <<20108>>>>, <<12039, 3, <<20128>>>>,
      <<12040, 3, <<20154>>>>, <<12041, 3, <<20799>>>>, <<12042, 3, <<20837>>>>,
      <<12043, 3, <<20843>>>>, <<12044, 3, <<20866>>>>, <<12045, 3, <<20886>>>>,
      <<12046, 3, <<20907>>>>, <<12047, 3, <<20960>>>>, <<12048, 3, <<20981>>>>,
      <<12049, 3, <<20992>>>>, <<12050, 3, <<21147>>>>, <<12051, 3, <<21241>>>>,
      <<12052, 3, <<21269>>>>, <<12053, 3, <<21274>>>>, <<12054, 3, <<21304>>>>,
      <<12055, 3, <<21313>>>>, <<12056, 3, <<21340>>>>, <<12057, 3, <<21353>>>>,
      <<12058, 3, <<21378>>>>, <<12059, 3, <<21430>>>>, <<12060, 3, <<21448>>>>,
      <<12061, 3, <<21475>>>>, <<12062, 3, <<22231>>>>, <<12063, 3, <<22303>>>>,
      <<12064, 3, <<22763>>>>, <<12065, 3, <<22786>>>>, <<12066, 3, <<22794>>>>,
      <<12067, 3, <<22805>>>>, <<12068, 3, <<22823>>>>, <<12069, 3, <<22899>>>>,
      <<12070, 3, <<23376>>>>, <<12071, 3, <<23424>>>>, <<12072, 3, <<23544>>>>,
      <<12073, 3, <<23567>>>>, <<12074, 3, <<23586>>>>, <<12075, 3, <<23608>>>>,
      <<12076, 3, <<23662>>>>, <<12077, 3, <<23665>>>>, <<12078, 3, <<24027>>>>,
      <<12079, 3, <<24037>>>>, <<12080, 3, <<24049>>>>, <<12081, 3, <<24062>>>>,
      <<12082, 3, <<24178>>>>, <<12083, 3, <<24186>>>>, <<12084, 3, <<24191>>>>,
      <<12085, 3, <<24308>>>>, <<12086, 3, <<24318>>>>, <<12087, 3, <<24331>>>>,
      <<12088, 3, <<24339>>>>, <<12089, 3, <<24400>>>>, <<12090, 3, <<24417>>>>,
      <<12091, 3, <<24435>>>>, <<12092, 3, <<24515>>>>, <<12093, 3, <<25096>>>>,
      <<12094, 3, <<25142>>>>, <<12095, 3, <<25163>>>>, <<12096, 3, <<25903>>>>,
      <<12097, 3, <<25908>>>>, <<12098, 3, <<25991>>>>, <<12099, 3, <<26007>>>>,
      <<12100, 3, <<26020>>>>, <<12101, 3, <<26041>>>>, <<12102, 3, <<26080>>>>,
      <<12103, 3, <<26085>>>>, <<12104, 3, <<26352>>>>, <<12105, 3, <<26376>>>>,
      <<12106, 3, <<26408>>>>, <<12107, 3, <<27424>>>>, <<12108, 3, <<27490>>>>,
      <<12109, 3, <<27513>>>>, <<12110, 3, <<27571>>>>, <<12111, 3, <<27595>>>>,
      <<12112, 3, <<27604>>>>, <<12113, 3, <<27611>>>>, <<12114, 3, <<27663>>>>,
      <<12115, 3, <<27668>>>>, <<12116, 3, <<27700>>>>, <<12117, 3, <<28779>>>>,
      <<12118, 3, <<29226>>>>, <<12119, 3, <<29238>>>>, <<12120, 3, <<29243>>>>,
      <<12121, 3, <<29247>>>>, <<12122, 3, <<29255>>>>, <<12123, 3, <<29273>>>>,
      <<12124, 3, <<29275>>>>, <<12125, 3, <<29356>>>>, <<12126, 3, <<29572>>>>,
      <<12127, 3, <<29577>>>>, <<12128, 3, <<29916>>>>, <<12129, 3, <<29926>>>>,
      <<12130, 3, <<29976>>>>, <<12131, 3, <<29983>>>>, <<12132, 3, <<29992>>>>,
      <<12133, 3, <<30000>>>>, <<12134, 3, <<30091>>>>, <<12135, 3, <<30098>>>>,
      <<12136, 3, <<30326>>>>, <<12137, 3, <<30333>>>>, <<12138, 3, <<30382>>>>,
      <<12139, 3, <<30399>>>>, <<12140, 3, <<30446>>>>, <<12141, 3, <<30683>>>>,
      <<12142, 3, <<30690>>>>, <<12143, 3, <<30707>>>>, <<12144, 3, <<31034>>>>,
      <<12145, 3, <<31160>>>>, <<12146, 3, <<31166>>>>, <<12147, 3, <<31348>>>>,
      <<12148, 3, <<31435>>>>, <<12149, 3, <<31481>>>>, <<12150, 3, <<31859>>>>,
      <<12151, 3, <<31992>>>>, <<12152, 3, <<32566>>>>, <<12153, 3, <<32593>>>>,
      <<12154, 3, <<32650>>>>, <<12155, 3, <<32701>>>>, <<12156, 3, <<32769>>>>,
      <<12157, 3, <<32780>>>>, <<12158, 3, <<32786>>>>, <<12159, 3, <<32819>>>>,
      <<12160, 3, <<32895>>>>, <<12161, 3, <<32905>>>>, <<12162, 3, <<33251>>>>,
      <<12163, 3, <<33258>>>>, <<12164, 3, <<33267>>>>, <<12165, 3, <<33276>>>>,
      <<12166, 3, <<33292>>>>, <<12167, 3, <<33307>>>>, <<12168, 3, <<33311>>>>,
      <<12169, 3, <<33390>>>>, <<12170, 3, <<33394>>>>, <<12171, 3, <<33400>>>>,
      <<12172, 3, <<34381>>>>, <<12173, 3, <<34411>>>>, <<12174, 3, <<34880>>>>,
      <<12175, 3, <<34892>>>>, <<12176, 3, <<34915>>>>, <<12177, 3, <<35198>>>>,
      <<12178, 3, <<35211>>>>, <<12179, 3, <<35282>>>>, <<12180, 3, <<35328>>>>,
      <<12181, 3, <<35895>>>>, <<12182, 3, <<35910>>>>, <<12183, 3, <<35925>>>>,
      <<12184, 3, <<35960>>>>, <<12185, 3, <<35997>>>>, <<12186, 3, <<36196>>>>,
      <<12187, 3, <<36208>>>>, <<12188, 3, <<36275>>>>, <<12189, 3, <<36523>>>>,
      <<12190, 3, <<36554>>>>, <<12191, 3, <<36763>>>>, <<12192, 3, <<36784>>>>,
      <<12193, 3, <<36789>>>>, <<12194, 3, <<37009>>>>, <<12195, 3, <<37193>>>>,
      <<12196, 3, <<37318>>>>, <<12197, 3, <<37324>>>>, <<12198, 3, <<37329>>>>,
      <<12199, 3, <<38263>>>>, <<12200, 3, <<38272>>>>, <<12201, 3, <<38428>>>>,
      <<12202, 3, <<38582>>>>, <<12203, 3, <<38585>>>>, <<12204, 3, <<38632>>>>,
      <<12205, 3, <<38737>>>>, <<12206, 3, <<38750>>>>, <<12207, 3, <<38754>>>>,
      <<12208, 3, <<38761>>>>, <<12209, 3, <<38859>>>>, <<12210, 3, <<38893>>>>,
      <<12211, 3, <<38899>>>>, <<12212, 3, <<38913>>>>, <<12213, 3, <<39080>>>>,
      <<12214, 3, <<39131>>>>, <<12215, 3, <<39135>>>>, <<12216, 3, <<39318>>>>,
      <<12217, 3, <<39321>>>>, <<12218, 3, <<39340>>>>, <<12219, 3, <<39592>>>>,
      <<12220, 3, <<39640>>>>, <<12221, 3, <<39647>>>>, <<12222, 3, <<39717>>>>,
      <<12223, 3, <<39727>>>>, <<12224, 3, <<39730>>>>, <<12225, 3, <<39740>>>>,
      <<12226, 3, <<39770>>>>, <<12227, 3, <<40165>>>>, <<12228, 3, <<40565>>>>,
      <<12229, 3, <<40575>>>>, <<12230, 3, <<40613>>>>, <<12231, 3, <<40635>>>>,
      <<12232, 3, <<40643>>>>, <<12233, 3, <<40653>>>>, <<12234, 3, <<40657>>>>,
      <<12235, 3, <<40697>>>>, <<12236, 3, <<40701>>>>, <<12237, 3, <<40718>>>>,
      <<12238, 3, <<40723>>>>, <<12239, 3, <<40736>>>>, <<12240, 3, <<40763>>>>,
      <<12241, 3, <<40778>>>>, <<12242, 3, <<40786>>>>, <<12243, 3, <<40845>>>>,
      <<12244, 3, <<40860>>>>, <<12245, 3, <<40864>>>>, <<12246, 2, <<>>>>,
      <<12288, 3, <<32>>>>, <<12289, 1, <<>>>>, <<12290, 3, <<46>>>>, <<12291, 1, <<>>>>,
      <<12342, 3, <<12306>>>>, <<12343, 1, <<>>>>, <<12344, 3, <<21313>>>>,
      <<12345, 3, <<21316>>>>, <<12346, 3, <<21317>>>>, <<12347, 1, <<>>>>, <<12352, 2, <<>>>>,
      <<12353, 1, <<>>>>, <<12439, 2, <<>>>>, <<12441, 1, <<>>>>, <<12443, 3, <<32, 12441>>>>,
      <<12444, 3, <<32, 12442>>>>, <<12445, 1, <<>>>>, <<12447, 3, <<12424, 12426>>>>,
      <<12448, 1, <<>>>>, <<12543, 3, <<12467, 12488>>>>, <<12544, 2, <<>>>>,
      <<12549, 1, <<>>>>, <<12592, 2, <<>>>>, <<12593, 3, <<4352>>>>, <<12594, 3, <<4353>>>>,
      <<12595, 3, <<4522>>>>, <<12596, 3, <<4354>>>>, <<12597, 3, <<4524>>>>,
      <<12598, 3, <<4525>>>>, <<12599, 3, <<4355>>>>, <<12600, 3, <<4356>>>>,
      <<12601, 3, <<4357>>>>, <<12602, 3, <<4528>>>>, <<12603, 3, <<4529>>>>,
      <<12604, 3, <<4530>>>>, <<12605, 3, <<4531>>>>, <<12606, 3, <<4532>>>>,
      <<12607, 3, <<4533>>>>, <<12608, 3, <<4378>>>>, <<12609, 3, <<4358>>>>,
      <<12610, 3, <<4359>>>>, <<12611, 3, <<4360>>>>, <<12612, 3, <<4385>>>>,
      <<12613, 3, <<4361>>>>, <<12614, 3, <<4362>>>>, <<12615, 3, <<4363>>>>,
      <<12616, 3, <<4364>>>>, <<12617, 3, <<4365>>>>, <<12618, 3, <<4366>>>>,
      <<12619, 3, <<4367>>>>, <<12620, 3, <<4368>>>>, <<12621, 3, <<4369>>>>,
      <<12622, 3, <<4370>>>>, <<12623, 3, <<4449>>>>, <<12624, 3, <<4450>>>>,
      <<12625, 3, <<4451>>>>, <<12626, 3, <<4452>>>>, <<12627, 3, <<4453>>>>,
      <<12628, 3, <<4454>>>>, <<12629, 3, <<4455>>>>, <<12630, 3, <<4456>>>>,
      <<12631, 3, <<4457>>>>, <<12632, 3, <<4458>>>>, <<12633, 3, <<4459>>>>,
      <<12634, 3, <<4460>>>>, <<12635, 3, <<4461>>>>, <<12636, 3, <<4462>>>>,
      <<12637, 3, <<4463>>>>, <<12638, 3, <<4464>>>>, <<12639, 3, <<4465>>>>,
      <<12640, 3, <<4466>>>>, <<12641, 3, <<4467>>>>, <<12642, 3, <<4468>>>>,
      <<12643, 3, <<4469>>>>, <<12644, 2, <<>>>>, <<12645, 3, <<4372>>>>,
      <<12646, 3, <<4373>>>>, <<12647, 3, <<4551>>>>, <<12648, 3, <<4552>>>>,
      <<12649, 3, <<4556>>>>, <<12650, 3, <<4558>>>>, <<12651, 3, <<4563>>>>,
      <<12652, 3, <<4567>>>>, <<12653, 3, <<4569>>>>, <<12654, 3, <<4380>>>>,
      <<12655, 3, <<4573>>>>, <<12656, 3, <<4575>>>>, <<12657, 3, <<4381>>>>,
      <<12658, 3, <<4382>>>>, <<12659, 3, <<4384>>>>, <<12660, 3, <<4386>>>>,
      <<12661, 3, <<4387>>>>, <<12662, 3, <<4391>>>>, <<12663, 3, <<4393>>>>,
      <<12664, 3, <<4395>>>>, <<12665, 3, <<4396>>>>, <<12666, 3, <<4397>>>>,
      <<12667, 3, <<4398>>>>, <<12668, 3, <<4399>>>>, <<12669, 3, <<4402>>>>,
      <<12670, 3, <<4406>>>>, <<12671, 3, <<4416>>>>, <<12672, 3, <<4423>>>>,
      <<12673, 3, <<4428>>>>, <<12674, 3, <<4593>>>>, <<12675, 3, <<4594>>>>,
      <<12676, 3, <<4439>>>>, <<12677, 3, <<4440>>>>, <<12678, 3, <<4441>>>>,
      <<12679, 3, <<4484>>>>, <<12680, 3, <<4485>>>>, <<12681, 3, <<4488>>>>,
      <<12682, 3, <<4497>>>>, <<12683, 3, <<4498>>>>, <<12684, 3, <<4500>>>>,
      <<12685, 3, <<4510>>>>, <<12686, 3, <<4513>>>>, <<12687, 2, <<>>>>, <<12688, 1, <<>>>>,
      <<12690, 3, <<19968>>>>, <<12691, 3, <<20108>>>>, <<12692, 3, <<19977>>>>,
      <<12693, 3, <<22235>>>>, <<12694, 3, <<19978>>>>, <<12695, 3, <<20013>>>>,
      <<12696, 3, <<19979>>>>, <<12697, 3, <<30002>>>>, <<12698, 3, <<20057>>>>,
      <<12699, 3, <<19993>>>>, <<12700, 3, <<19969>>>>, <<12701, 3, <<22825>>>>,
      <<12702, 3, <<22320>>>>, <<12703, 3, <<20154>>>>, <<12704, 1, <<>>>>, <<12772, 2, <<>>>>,
      <<12784, 1, <<>>>>, <<12800, 3, <<40, 4352, 41>>>>, <<12801, 3, <<40, 4354, 41>>>>,
      <<12802, 3, <<40, 4355, 41>>>>, <<12803, 3, <<40, 4357, 41>>>>,
      <<12804, 3, <<40, 4358, 41>>>>, <<12805, 3, <<40, 4359, 41>>>>,
      <<12806, 3, <<40, 4361, 41>>>>, <<12807, 3, <<40, 4363, 41>>>>,
      <<12808, 3, <<40, 4364, 41>>>>, <<12809, 3, <<40, 4366, 41>>>>,
      <<12810, 3, <<40, 4367, 41>>>>, <<12811, 3, <<40, 4368, 41>>>>,
      <<12812, 3, <<40, 4369, 41>>>>, <<12813, 3, <<40, 4370, 41>>>>,
      <<12814, 3, <<40, 44032, 41>>>>, <<12815, 3, <<40, 45208, 41>>>>,
      <<12816, 3, <<40, 45796, 41>>>>, <<12817, 3, <<40, 46972, 41>>>>,
      <<12818, 3, <<40, 47560, 41>>>>, <<12819, 3, <<40, 48148, 41>>>>,
      <<12820, 3, <<40, 49324, 41>>>>, <<12821, 3, <<40, 50500, 41>>>>,
      <<12822, 3, <<40, 51088, 41>>>>, <<12823, 3, <<40, 52264, 41>>>>,
      <<12824, 3, <<40, 52852, 41>>>>, <<12825, 3, <<40, 53440, 41>>>>,
      <<12826, 3, <<40, 54028, 41>>>>, <<12827, 3, <<40, 54616, 41>>>>,
      <<12828, 3, <<40, 51452, 41>>>>, <<12829, 3, <<40, 50724, 51204, 41>>>>,
      <<12830, 3, <<40, 50724, 54980, 41>>>>, <<12831, 2, <<>>>>,
      <<12832, 3, <<40, 19968, 41>>>>, <<12833, 3, <<40, 20108, 41>>>>,
      <<12834, 3, <<40, 19977, 41>>>>, <<12835, 3, <<40, 22235, 41>>>>,
      <<12836, 3, <<40, 20116, 41>>>>, <<12837, 3, <<40, 20845, 41>>>>,
      <<12838, 3, <<40, 19971, 41>>>>, <<12839, 3, <<40, 20843, 41>>>>,
      <<12840, 3, <<40, 20061, 41>>>>, <<12841, 3, <<40, 21313, 41>>>>,
      <<12842, 3, <<40, 26376, 41>>>>, <<12843, 3, <<40, 28779, 41>>>>,
      <<12844, 3, <<40, 27700, 41>>>>, <<12845, 3, <<40, 26408, 41>>>>,
      <<12846, 3, <<40, 37329, 41>>>>, <<12847, 3, <<40, 22303, 41>>>>,
      <<12848, 3, <<40, 26085, 41>>>>, <<12849, 3, <<40, 26666, 41>>>>,
      <<12850, 3, <<40, 26377, 41>>>>, <<12851, 3, <<40, 31038, 41>>>>,
      <<12852, 3, <<40, 21517, 41>>>>, <<12853, 3, <<40, 29305, 41>>>>,
      <<12854, 3, <<40, 36001, 41>>>>, <<12855, 3, <<40, 31069, 41>>>>,
      <<12856, 3, <<40, 21172, 41>>>>, <<12857, 3, <<40, 20195, 41>>>>,
      <<12858, 3, <<40, 21628, 41>>>>, <<12859, 3, <<40, 23398, 41>>>>,
      <<12860, 3, <<40, 30435, 41>>>>, <<12861, 3, <<40, 20225, 41>>>>,
      <<12862, 3, <<40, 36039, 41>>>>, <<12863, 3, <<40, 21332, 41>>>>,
      <<12864, 3, <<40, 31085, 41>>>>, <<12865, 3, <<40, 20241, 41>>>>,
      <<12866, 3, <<40, 33258, 41>>>>, <<12867, 3, <<40, 33267, 41>>>>, <<12868, 3, <<21839>>>>,
      <<12869, 3, <<24188>>>>, <<12870, 3, <<25991>>>>, <<12871, 3, <<31631>>>>,
      <<12872, 1, <<>>>>, <<12880, 3, <<112, 116, 101>>>>, <<12881, 3, <<50, 49>>>>,
      <<12882, 3, <<50, 50>>>>, <<12883, 3, <<50, 51>>>>, <<12884, 3, <<50, 52>>>>,
      <<12885, 3, <<50, 53>>>>, <<12886, 3, <<50, 54>>>>, <<12887, 3, <<50, 55>>>>,
      <<12888, 3, <<50, 56>>>>, <<12889, 3, <<50, 57>>>>, <<12890, 3, <<51, 48>>>>,
      <<12891, 3, <<51, 49>>>>, <<12892, 3, <<51, 50>>>>, <<12893, 3, <<51, 51>>>>,
      <<12894, 3, <<51, 52>>>>, <<12895, 3, <<51, 53>>>>, <<12896, 3, <<4352>>>>,
      <<12897, 3, <<4354>>>>, <<12898, 3, <<4355>>>>, <<12899, 3, <<4357>>>>,
      <<12900, 3, <<4358>>>>, <<12901, 3, <<4359>>>>, <<12902, 3, <<4361>>>>,
      <<12903, 3, <<4363>>>>, <<12904, 3, <<4364>>>>, <<12905, 3, <<4366>>>>,
      <<12906, 3, <<4367>>>>, <<12907, 3, <<4368>>>>, <<12908, 3, <<4369>>>>,
      <<12909, 3, <<4370>>>>, <<12910, 3, <<44032>>>>, <<12911, 3, <<45208>>>>,
      <<12912, 3, <<45796>>>>, <<12913, 3, <<46972>>>>, <<12914, 3, <<47560>>>>,
      <<12915, 3, <<48148>>>>, <<12916, 3, <<49324>>>>, <<12917, 3, <<50500>>>>,
      <<12918, 3, <<51088>>>>, <<12919, 3, <<52264>>>>, <<12920, 3, <<52852>>>>,
      <<12921, 3, <<53440>>>>, <<12922, 3, <<54028>>>>, <<12923, 3, <<54616>>>>,
      <<12924, 3, <<52280, 44256>>>>, <<12925, 3, <<51452, 51032>>>>, <<12926, 3, <<50864>>>>,
      <<12927, 1, <<>>>>, <<12928, 3, <<19968>>>>, <<12929, 3, <<20108>>>>,
      <<12930, 3, <<19977>>>>, <<12931, 3, <<22235>>>>, <<12932, 3, <<20116>>>>,
      <<12933, 3, <<20845>>>>, <<12934, 3, <<19971>>>>, <<12935, 3, <<20843>>>>,
      <<12936, 3, <<20061>>>>, <<12937, 3, <<21313>>>>, <<12938, 3, <<26376>>>>,
      <<12939, 3, <<28779>>>>, <<12940, 3, <<27700>>>>, <<12941, 3, <<26408>>>>,
      <<12942, 3, <<37329>>>>, <<12943, 3, <<22303>>>>, <<12944, 3, <<26085>>>>,
      <<12945, 3, <<26666>>>>, <<12946, 3, <<26377>>>>, <<12947, 3, <<31038>>>>,
      <<12948, 3, <<21517>>>>, <<12949, 3, <<29305>>>>, <<12950, 3, <<36001>>>>,
      <<12951, 3, <<31069>>>>, <<12952, 3, <<21172>>>>, <<12953, 3, <<31192>>>>,
      <<12954, 3, <<30007>>>>, <<12955, 3, <<22899>>>>, <<12956, 3, <<36969>>>>,
      <<12957, 3, <<20778>>>>, <<12958, 3, <<21360>>>>, <<12959, 3, <<27880>>>>,
      <<12960, 3, <<38917>>>>, <<12961, 3, <<20241>>>>, <<12962, 3, <<20889>>>>,
      <<12963, 3, <<27491>>>>, <<12964, 3, <<19978>>>>, <<12965, 3, <<20013>>>>,
      <<12966, 3, <<19979>>>>, <<12967, 3, <<24038>>>>, <<12968, 3, <<21491>>>>,
      <<12969, 3, <<21307>>>>, <<12970, 3, <<23447>>>>, <<12971, 3, <<23398>>>>,
      <<12972, 3, <<30435>>>>, <<12973, 3, <<20225>>>>, <<12974, 3, <<36039>>>>,
      <<12975, 3, <<21332>>>>, <<12976, 3, <<22812>>>>, <<12977, 3, <<51, 54>>>>,
      <<12978, 3, <<51, 55>>>>, <<12979, 3, <<51, 56>>>>, <<12980, 3, <<51, 57>>>>,
      <<12981, 3, <<52, 48>>>>, <<12982, 3, <<52, 49>>>>, <<12983, 3, <<52, 50>>>>,
      <<12984, 3, <<52, 51>>>>, <<12985, 3, <<52, 52>>>>, <<12986, 3, <<52, 53>>>>,
      <<12987, 3, <<52, 54>>>>, <<12988, 3, <<52, 55>>>>, <<12989, 3, <<52, 56>>>>,
      <<12990, 3, <<52, 57>>>>, <<12991, 3, <<53, 48>>>>, <<12992, 3, <<49, 26376>>>>,
      <<12993, 3, <<50, 26376>>>>, <<12994, 3, <<51, 26376>>>>, <<12995, 3, <<52, 26376>>>>,
      <<12996, 3, <<53, 26376>>>>, <<12997, 3, <<54, 26376>>>>, <<12998, 3, <<55, 26376>>>>,
      <<12999, 3, <<56, 26376>>>>, <<13000, 3, <<57, 26376>>>>, <<13001, 3, <<49, 48, 26376>>>>,
      <<13002, 3, <<49, 49, 26376>>>>, <<13003, 3, <<49, 50, 26376>>>>,
      <<13004, 3, <<104, 103>>>>, <<13005, 3, <<101, 114, 103>>>>, <<13006, 3, <<101, 118>>>>,
      <<13007, 3, <<108, 116, 100>>>>, <<13008, 3, <<12450>>>>, <<13009, 3, <<12452>>>>,
      <<13010, 3, <<12454>>>>, <<13011, 3, <<12456>>>>, <<13012, 3, <<12458>>>>,
      <<13013, 3, <<12459>>>>, <<13014, 3, <<12461>>>>, <<13015, 3, <<12463>>>>,
      <<13016, 3, <<12465>>>>, <<13017, 3, <<12467>>>>, <<13018, 3, <<12469>>>>,
      <<13019, 3, <<12471>>>>, <<13020, 3, <<12473>>>>, <<13021, 3, <<12475>>>>,
      <<13022, 3, <<12477>>>>, <<13023, 3, <<12479>>>>, <<13024, 3, <<12481>>>>,
      <<13025, 3, <<12484>>>>, <<13026, 3, <<12486>>>>, <<13027, 3, <<12488>>>>,
      <<13028, 3, <<12490>>>>, <<13029, 3, <<12491>>>>, <<13030, 3, <<12492>>>>,
      <<13031, 3, <<12493>>>>, <<13032, 3, <<12494>>>>, <<13033, 3, <<12495>>>>,
      <<13034, 3, <<12498>>>>, <<13035, 3, <<12501>>>>, <<13036, 3, <<12504>>>>,
      <<13037, 3, <<12507>>>>, <<13038, 3, <<12510>>>>, <<13039, 3, <<12511>>>>,
      <<13040, 3, <<12512>>>>, <<13041, 3, <<12513>>>>, <<13042, 3, <<12514>>>>,
      <<13043, 3, <<12516>>>>, <<13044, 3, <<12518>>>>, <<13045, 3, <<12520>>>>,
      <<13046, 3, <<12521>>>>, <<13047, 3, <<12522>>>>, <<13048, 3, <<12523>>>>,
      <<13049, 3, <<12524>>>>, <<13050, 3, <<12525>>>>, <<13051, 3, <<12527>>>>,
      <<13052, 3, <<12528>>>>, <<13053, 3, <<12529>>>>, <<13054, 3, <<12530>>>>,
      <<13055, 3, <<20196, 21644>>>>, <<13056, 3, <<12450, 12497, 12540, 12488>>>>,
      <<13057, 3, <<12450, 12523, 12501, 12449>>>>,
      <<13058, 3, <<12450, 12531, 12506, 12450>>>>, <<13059, 3, <<12450, 12540, 12523>>>>,
      <<13060, 3, <<12452, 12491, 12531, 12464>>>>, <<13061, 3, <<12452, 12531, 12481>>>>,
      <<13062, 3, <<12454, 12457, 12531>>>>,
      <<13063, 3, <<12456, 12473, 12463, 12540, 12489>>>>,
      <<13064, 3, <<12456, 12540, 12459, 12540>>>>, <<13065, 3, <<12458, 12531, 12473>>>>,
      <<13066, 3, <<12458, 12540, 12512>>>>, <<13067, 3, <<12459, 12452, 12522>>>>,
      <<13068, 3, <<12459, 12521, 12483, 12488>>>>,
      <<13069, 3, <<12459, 12525, 12522, 12540>>>>, <<13070, 3, <<12460, 12525, 12531>>>>,
      <<13071, 3, <<12460, 12531, 12510>>>>, <<13072, 3, <<12462, 12460>>>>,
      <<13073, 3, <<12462, 12491, 12540>>>>, <<13074, 3, <<12461, 12517, 12522, 12540>>>>,
      <<13075, 3, <<12462, 12523, 12480, 12540>>>>, <<13076, 3, <<12461, 12525>>>>,
      <<13077, 3, <<12461, 12525, 12464, 12521, 12512>>>>,
      <<13078, 3, <<12461, 12525, 12513, 12540, 12488, 12523>>>>,
      <<13079, 3, <<12461, 12525, 12527, 12483, 12488>>>>,
      <<13080, 3, <<12464, 12521, 12512>>>>,
      <<13081, 3, <<12464, 12521, 12512, 12488, 12531>>>>,
      <<13082, 3, <<12463, 12523, 12476, 12452, 12525>>>>,
      <<13083, 3, <<12463, 12525, 12540, 12493>>>>, <<13084, 3, <<12465, 12540, 12473>>>>,
      <<13085, 3, <<12467, 12523, 12490>>>>, <<13086, 3, <<12467, 12540, 12509>>>>,
      <<13087, 3, <<12469, 12452, 12463, 12523>>>>,
      <<13088, 3, <<12469, 12531, 12481, 12540, 12512>>>>,
      <<13089, 3, <<12471, 12522, 12531, 12464>>>>, <<13090, 3, <<12475, 12531, 12481>>>>,
      <<13091, 3, <<12475, 12531, 12488>>>>, <<13092, 3, <<12480, 12540, 12473>>>>,
      <<13093, 3, <<12487, 12471>>>>, <<13094, 3, <<12489, 12523>>>>,
      <<13095, 3, <<12488, 12531>>>>, <<13096, 3, <<12490, 12494>>>>,
      <<13097, 3, <<12494, 12483, 12488>>>>, <<13098, 3, <<12495, 12452, 12484>>>>,
      <<13099, 3, <<12497, 12540, 12475, 12531, 12488>>>>,
      <<13100, 3, <<12497, 12540, 12484>>>>, <<13101, 3, <<12496, 12540, 12524, 12523>>>>,
      <<13102, 3, <<12500, 12450, 12473, 12488, 12523>>>>,
      <<13103, 3, <<12500, 12463, 12523>>>>, <<13104, 3, <<12500, 12467>>>>,
      <<13105, 3, <<12499, 12523>>>>, <<13106, 3, <<12501, 12449, 12521, 12483, 12489>>>>,
      <<13107, 3, <<12501, 12451, 12540, 12488>>>>,
      <<13108, 3, <<12502, 12483, 12471, 12455, 12523>>>>,
      <<13109, 3, <<12501, 12521, 12531>>>>,
      <<13110, 3, <<12504, 12463, 12479, 12540, 12523>>>>, <<13111, 3, <<12506, 12477>>>>,
      <<13112, 3, <<12506, 12491, 12498>>>>, <<13113, 3, <<12504, 12523, 12484>>>>,
      <<13114, 3, <<12506, 12531, 12473>>>>, <<13115, 3, <<12506, 12540, 12472>>>>,
      <<13116, 3, <<12505, 12540, 12479>>>>, <<13117, 3, <<12509, 12452, 12531, 12488>>>>,
      <<13118, 3, <<12508, 12523, 12488>>>>, <<13119, 3, <<12507, 12531>>>>,
      <<13120, 3, <<12509, 12531, 12489>>>>, <<13121, 3, <<12507, 12540, 12523>>>>,
      <<13122, 3, <<12507, 12540, 12531>>>>, <<13123, 3, <<12510, 12452, 12463, 12525>>>>,
      <<13124, 3, <<12510, 12452, 12523>>>>, <<13125, 3, <<12510, 12483, 12495>>>>,
      <<13126, 3, <<12510, 12523, 12463>>>>,
      <<13127, 3, <<12510, 12531, 12471, 12519, 12531>>>>,
      <<13128, 3, <<12511, 12463, 12525, 12531>>>>, <<13129, 3, <<12511, 12522>>>>,
      <<13130, 3, <<12511, 12522, 12496, 12540, 12523>>>>, <<13131, 3, <<12513, 12460>>>>,
      <<13132, 3, <<12513, 12460, 12488, 12531>>>>,
      <<13133, 3, <<12513, 12540, 12488, 12523>>>>, <<13134, 3, <<12516, 12540, 12489>>>>,
      <<13135, 3, <<12516, 12540, 12523>>>>, <<13136, 3, <<12518, 12450, 12531>>>>,
      <<13137, 3, <<12522, 12483, 12488, 12523>>>>, <<13138, 3, <<12522, 12521>>>>,
      <<13139, 3, <<12523, 12500, 12540>>>>, <<13140, 3, <<12523, 12540, 12502, 12523>>>>,
      <<13141, 3, <<12524, 12512>>>>, <<13142, 3, <<12524, 12531, 12488, 12466, 12531>>>>,
      <<13143, 3, <<12527, 12483, 12488>>>>, <<13144, 3, <<48, 28857>>>>,
      <<13145, 3, <<49, 28857>>>>, <<13146, 3, <<50, 28857>>>>, <<13147, 3, <<51, 28857>>>>,
      <<13148, 3, <<52, 28857>>>>, <<13149, 3, <<53, 28857>>>>, <<13150, 3, <<54, 28857>>>>,
      <<13151, 3, <<55, 28857>>>>, <<13152, 3, <<56, 28857>>>>, <<13153, 3, <<57, 28857>>>>,
      <<13154, 3, <<49, 48, 28857>>>>, <<13155, 3, <<49, 49, 28857>>>>,
      <<13156, 3, <<49, 50, 28857>>>>, <<13157, 3, <<49, 51, 28857>>>>,
      <<13158, 3, <<49, 52, 28857>>>>, <<13159, 3, <<49, 53, 28857>>>>,
      <<13160, 3, <<49, 54, 28857>>>>, <<13161, 3, <<49, 55, 28857>>>>,
      <<13162, 3, <<49, 56, 28857>>>>, <<13163, 3, <<49, 57, 28857>>>>,
      <<13164, 3, <<50, 48, 28857>>>>, <<13165, 3, <<50, 49, 28857>>>>,
      <<13166, 3, <<50, 50, 28857>>>>, <<13167, 3, <<50, 51, 28857>>>>,
      <<13168, 3, <<50, 52, 28857>>>>, <<13169, 3, <<104, 112, 97>>>>,
      <<13170, 3, <<100, 97>>>>, <<13171, 3, <<97, 117>>>>, <<13172, 3, <<98, 97, 114>>>>,
      <<13173, 3, <<111, 118>>>>, <<13174, 3, <<112, 99>>>>, <<13175, 3, <<100, 109>>>>,
      <<13176, 3, <<100, 109, 50>>>>, <<13177, 3, <<100, 109, 51>>>>,
      <<13178, 3, <<105, 117>>>>, <<13179, 3, <<24179, 25104>>>>,
      <<13180, 3, <<26157, 21644>>>>, <<13181, 3, <<22823, 27491>>>>,
      <<13182, 3, <<26126, 27835>>>>, <<13183, 3, <<26666, 24335, 20250, 31038>>>>,
      <<13184, 3, <<112, 97>>>>, <<13185, 3, <<110, 97>>>>, <<13186, 3, <<956, 97>>>>,
      <<13187, 3, <<109, 97>>>>, <<13188, 3, <<107, 97>>>>, <<13189, 3, <<107, 98>>>>,
      <<13190, 3, <<109, 98>>>>, <<13191, 3, <<103, 98>>>>, <<13192, 3, <<99, 97, 108>>>>,
      <<13193, 3, <<107, 99, 97, 108>>>>, <<13194, 3, <<112, 102>>>>,
      <<13195, 3, <<110, 102>>>>, <<13196, 3, <<956, 102>>>>, <<13197, 3, <<956, 103>>>>,
      <<13198, 3, <<109, 103>>>>, <<13199, 3, <<107, 103>>>>, <<13200, 3, <<104, 122>>>>,
      <<13201, 3, <<107, 104, 122>>>>, <<13202, 3, <<109, 104, 122>>>>,
      <<13203, 3, <<103, 104, 122>>>>, <<13204, 3, <<116, 104, 122>>>>,
      <<13205, 3, <<956, 108>>>>, <<13206, 3, <<109, 108>>>>, <<13207, 3, <<100, 108>>>>,
      <<13208, 3, <<107, 108>>>>, <<13209, 3, <<102, 109>>>>, <<13210, 3, <<110, 109>>>>,
      <<13211, 3, <<956, 109>>>>, <<13212, 3, <<109, 109>>>>, <<13213, 3, <<99, 109>>>>,
      <<13214, 3, <<107, 109>>>>, <<13215, 3, <<109, 109, 50>>>>, <<13216, 3, <<99, 109, 50>>>>,
      <<13217, 3, <<109, 50>>>>, <<13218, 3, <<107, 109, 50>>>>, <<13219, 3, <<109, 109, 51>>>>,
      <<13220, 3, <<99, 109, 51>>>>, <<13221, 3, <<109, 51>>>>, <<13222, 3, <<107, 109, 51>>>>,
      <<13223, 3, <<109, 8725, 115>>>>, <<13224, 3, <<109, 8725, 115, 50>>>>,
      <<13225, 3, <<112, 97>>>>, <<13226, 3, <<107, 112, 97>>>>, <<13227, 3, <<109, 112, 97>>>>,
      <<13228, 3, <<103, 112, 97>>>>, <<13229, 3, <<114, 97, 100>>>>,
      <<13230, 3, <<114, 97, 100, 8725, 115>>>>, <<13231, 3, <<114, 97, 100, 8725, 115, 50>>>>,
      <<13232, 3, <<112, 115>>>>, <<13233, 3, <<110, 115>>>>, <<13234, 3, <<956, 115>>>>,
      <<13235, 3, <<109, 115>>>>, <<13236, 3, <<112, 118>>>>, <<13237, 3, <<110, 118>>>>,
      <<13238, 3, <<956, 118>>>>, <<13239, 3, <<109, 118>>>>, <<13240, 3, <<107, 118>>>>,
      <<13241, 3, <<109, 118>>>>, <<13242, 3, <<112, 119>>>>, <<13243, 3, <<110, 119>>>>,
      <<13244, 3, <<956, 119>>>>, <<13245, 3, <<109, 119>>>>, <<13246, 3, <<107, 119>>>>,
      <<13247, 3, <<109, 119>>>>, <<13248, 3, <<107, 969>>>>, <<13249, 3, <<109, 969>>>>,
      <<13250, 2, <<>>>>, <<13251, 3, <<98, 113>>>>, <<13252, 3, <<99, 99>>>>,
      <<13253, 3, <<99, 100>>>>, <<13254, 3, <<99, 8725, 107, 103>>>>, <<13255, 2, <<>>>>,
      <<13256, 3, <<100, 98>>>>, <<13257, 3, <<103, 121>>>>, <<13258, 3, <<104, 97>>>>,
      <<13259, 3, <<104, 112>>>>, <<13260, 3, <<105, 110>>>>, <<13261, 3, <<107, 107>>>>,
      <<13262, 3, <<107, 109>>>>, <<13263, 3, <<107, 116>>>>, <<13264, 3, <<108, 109>>>>,
      <<13265, 3, <<108, 110>>>>, <<13266, 3, <<108, 111, 103>>>>, <<13267, 3, <<108, 120>>>>,
      <<13268, 3, <<109, 98>>>>, <<13269, 3, <<109, 105, 108>>>>,
      <<13270, 3, <<109, 111, 108>>>>, <<13271, 3, <<112, 104>>>>, <<13272, 2, <<>>>>,
      <<13273, 3, <<112, 112, 109>>>>, <<13274, 3, <<112, 114>>>>, <<13275, 3, <<115, 114>>>>,
      <<13276, 3, <<115, 118>>>>, <<13277, 3, <<119, 98>>>>, <<13278, 3, <<118, 8725, 109>>>>,
      <<13279, 3, <<97, 8725, 109>>>>, <<13280, 3, <<49, 26085>>>>, <<13281, 3, <<50, 26085>>>>,
      <<13282, 3, <<51, 26085>>>>, <<13283, 3, <<52, 26085>>>>, <<13284, 3, <<53, 26085>>>>,
      <<13285, 3, <<54, 26085>>>>, <<13286, 3, <<55, 26085>>>>, <<13287, 3, <<56, 26085>>>>,
      <<13288, 3, <<57, 26085>>>>, <<13289, 3, <<49, 48, 26085>>>>,
      <<13290, 3, <<49, 49, 26085>>>>, <<13291, 3, <<49, 50, 26085>>>>,
      <<13292, 3, <<49, 51, 26085>>>>, <<13293, 3, <<49, 52, 26085>>>>,
      <<13294, 3, <<49, 53, 26085>>>>, <<13295, 3, <<49, 54, 26085>>>>,
      <<13296, 3, <<49, 55, 26085>>>>, <<13297, 3, <<49, 56, 26085>>>>,
      <<13298, 3, <<49, 57, 26085>>>>, <<13299, 3, <<50, 48, 26085>>>>,
      <<13300, 3, <<50, 49, 26085>>>>, <<13301, 3, <<50, 50, 26085>>>>,
      <<13302, 3, <<50, 51, 26085>>>>, <<13303, 3, <<50, 52, 26085>>>>,
      <<13304, 3, <<50, 53, 26085>>>>, <<13305, 3, <<50, 54, 26085>>>>,
      <<13306, 3, <<50, 55, 26085>>>>, <<13307, 3, <<50, 56, 26085>>>>,
      <<13308, 3, <<50, 57, 26085>>>>, <<13309, 3, <<51, 48, 26085>>>>,
      <<13310, 3, <<51, 49, 26085>>>>, <<13311, 3, <<103, 97, 108>>>>, <<13312, 1, <<>>>>,
      <<42125, 2, <<>>>>, <<42128, 1, <<>>>>, <<42183, 2, <<>>>>, <<42192, 1, <<>>>>,
      <<42540, 2, <<>>>>, <<42560, 3, <<42561>>>>, <<42561, 1, <<>>>>, <<42562, 3, <<42563>>>>,
      <<42563, 1, <<>>>>, <<42564, 3, <<42565>>>>, <<42565, 1, <<>>>>, <<42566, 3, <<42567>>>>,
      <<42567, 1, <<>>>>, <<42568, 3, <<42569>>>>, <<42569, 1, <<>>>>, <<42570, 3, <<42571>>>>,
      <<42571, 1, <<>>>>, <<42572, 3, <<42573>>>>, <<42573, 1, <<>>>>, <<42574, 3, <<42575>>>>,
      <<42575, 1, <<>>>>, <<42576, 3, <<42577>>>>, <<42577, 1, <<>>>>, <<42578, 3, <<42579>>>>,
      <<42579, 1, <<>>>>, <<42580, 3, <<42581>>>>, <<42581, 1, <<>>>>, <<42582, 3, <<42583>>>>,
      <<42583, 1, <<>>>>, <<42584, 3, <<42585>>>>, <<42585, 1, <<>>>>, <<42586, 3, <<42587>>>>,
      <<42587, 1, <<>>>>, <<42588, 3, <<42589>>>>, <<42589, 1, <<>>>>, <<42590, 3, <<42591>>>>,
      <<42591, 1, <<>>>>, <<42592, 3, <<42593>>>>, <<42593, 1, <<>>>>, <<42594, 3, <<42595>>>>,
      <<42595, 1, <<>>>>, <<42596, 3, <<42597>>>>, <<42597, 1, <<>>>>, <<42598, 3, <<42599>>>>,
      <<42599, 1, <<>>>>, <<42600, 3, <<42601>>>>, <<42601, 1, <<>>>>, <<42602, 3, <<42603>>>>,
      <<42603, 1, <<>>>>, <<42604, 3, <<42605>>>>, <<42605, 1, <<>>>>, <<42624, 3, <<42625>>>>,
      <<42625, 1, <<>>>>, <<42626, 3, <<42627>>>>, <<42627, 1, <<>>>>, <<42628, 3, <<42629>>>>,
      <<42629, 1, <<>>>>, <<42630, 3, <<42631>>>>, <<42631, 1, <<>>>>, <<42632, 3, <<42633>>>>,
      <<42633, 1, <<>>>>, <<42634, 3, <<42635>>>>, <<42635, 1, <<>>>>, <<42636, 3, <<42637>>>>,
      <<42637, 1, <<>>>>, <<42638, 3, <<42639>>>>, <<42639, 1, <<>>>>, <<42640, 3, <<42641>>>>,
      <<42641, 1, <<>>>>, <<42642, 3, <<42643>>>>, <<42643, 1, <<>>>>, <<42644, 3, <<42645>>>>,
      <<42645, 1, <<>>>>, <<42646, 3, <<42647>>>>, <<42647, 1, <<>>>>, <<42648, 3, <<42649>>>>,
      <<42649, 1, <<>>>>, <<42650, 3, <<42651>>>>, <<42651, 1, <<>>>>, <<42652, 3, <<1098>>>>,
      <<42653, 3, <<1100>>>>, <<42654, 1, <<>>>>, <<42744, 2, <<>>>>, <<42752, 1, <<>>>>,
      <<42786, 3, <<42787>>>>, <<42787, 1, <<>>>>, <<42788, 3, <<42789>>>>, <<42789, 1, <<>>>>,
      <<42790, 3, <<42791>>>>, <<42791, 1, <<>>>>, <<42792, 3, <<42793>>>>, <<42793, 1, <<>>>>,
      <<42794, 3, <<42795>>>>, <<42795, 1, <<>>>>, <<42796, 3, <<42797>>>>, <<42797, 1, <<>>>>,
      <<42798, 3, <<42799>>>>, <<42799, 1, <<>>>>, <<42802, 3, <<42803>>>>, <<42803, 1, <<>>>>,
      <<42804, 3, <<42805>>>>, <<42805, 1, <<>>>>, <<42806, 3, <<42807>>>>, <<42807, 1, <<>>>>,
      <<42808, 3, <<42809>>>>, <<42809, 1, <<>>>>, <<42810, 3, <<42811>>>>, <<42811, 1, <<>>>>,
      <<42812, 3, <<42813>>>>, <<42813, 1, <<>>>>, <<42814, 3, <<42815>>>>, <<42815, 1, <<>>>>,
      <<42816, 3, <<42817>>>>, <<42817, 1, <<>>>>, <<42818, 3, <<42819>>>>, <<42819, 1, <<>>>>,
      <<42820, 3, <<42821>>>>, <<42821, 1, <<>>>>, <<42822, 3, <<42823>>>>, <<42823, 1, <<>>>>,
      <<42824, 3, <<42825>>>>, <<42825, 1, <<>>>>, <<42826, 3, <<42827>>>>, <<42827, 1, <<>>>>,
      <<42828, 3, <<42829>>>>, <<42829, 1, <<>>>>, <<42830, 3, <<42831>>>>, <<42831, 1, <<>>>>,
      <<42832, 3, <<42833>>>>, <<42833, 1, <<>>>>, <<42834, 3, <<42835>>>>, <<42835, 1, <<>>>>,
      <<42836, 3, <<42837>>>>, <<42837, 1, <<>>>>, <<42838, 3, <<42839>>>>, <<42839, 1, <<>>>>,
      <<42840, 3, <<42841>>>>, <<42841, 1, <<>>>>, <<42842, 3, <<42843>>>>, <<42843, 1, <<>>>>,
      <<42844, 3, <<42845>>>>, <<42845, 1, <<>>>>, <<42846, 3, <<42847>>>>, <<42847, 1, <<>>>>,
      <<42848, 3, <<42849>>>>, <<42849, 1, <<>>>>, <<42850, 3, <<42851>>>>, <<42851, 1, <<>>>>,
      <<42852, 3, <<42853>>>>, <<42853, 1, <<>>>>, <<42854, 3, <<42855>>>>, <<42855, 1, <<>>>>,
      <<42856, 3, <<42857>>>>, <<42857, 1, <<>>>>, <<42858, 3, <<42859>>>>, <<42859, 1, <<>>>>,
      <<42860, 3, <<42861>>>>, <<42861, 1, <<>>>>, <<42862, 3, <<42863>>>>, <<42863, 1, <<>>>>,
      <<42864, 3, <<42863>>>>, <<42865, 1, <<>>>>, <<42873, 3, <<42874>>>>, <<42874, 1, <<>>>>,
      <<42875, 3, <<42876>>>>, <<42876, 1, <<>>>>, <<42877, 3, <<7545>>>>,
      <<42878, 3, <<42879>>>>, <<42879, 1, <<>>>>, <<42880, 3, <<42881>>>>, <<42881, 1, <<>>>>,
      <<42882, 3, <<42883>>>>, <<42883, 1, <<>>>>, <<42884, 3, <<42885>>>>, <<42885, 1, <<>>>>,
      <<42886, 3, <<42887>>>>, <<42887, 1, <<>>>>, <<42891, 3, <<42892>>>>, <<42892, 1, <<>>>>,
      <<42893, 3, <<613>>>>, <<42894, 1, <<>>>>, <<42896, 3, <<42897>>>>, <<42897, 1, <<>>>>,
      <<42898, 3, <<42899>>>>, <<42899, 1, <<>>>>, <<42902, 3, <<42903>>>>, <<42903, 1, <<>>>>,
      <<42904, 3, <<42905>>>>, <<42905, 1, <<>>>>, <<42906, 3, <<42907>>>>, <<42907, 1, <<>>>>,
      <<42908, 3, <<42909>>>>, <<42909, 1, <<>>>>, <<42910, 3, <<42911>>>>, <<42911, 1, <<>>>>,
      <<42912, 3, <<42913>>>>, <<42913, 1, <<>>>>, <<42914, 3, <<42915>>>>, <<42915, 1, <<>>>>,
      <<42916, 3, <<42917>>>>, <<42917, 1, <<>>>>, <<42918, 3, <<42919>>>>, <<42919, 1, <<>>>>,
      <<42920, 3, <<42921>>>>, <<42921, 1, <<>>>>, <<42922, 3, <<614>>>>, <<42923, 3, <<604>>>>,
      <<42924, 3, <<609>>>>, <<42925, 3, <<620>>>>, <<42926, 3, <<618>>>>, <<42927, 1, <<>>>>,
      <<42928, 3, <<670>>>>, <<42929, 3, <<647>>>>, <<42930, 3, <<669>>>>,
      <<42931, 3, <<43859>>>>, <<42932, 3, <<42933>>>>, <<42933, 1, <<>>>>,
      <<42934, 3, <<42935>>>>, <<42935, 1, <<>>>>, <<42936, 3, <<42937>>>>, <<42937, 1, <<>>>>,
      <<42938, 3, <<42939>>>>, <<42939, 1, <<>>>>, <<42940, 3, <<42941>>>>, <<42941, 1, <<>>>>,
      <<42942, 3, <<42943>>>>, <<42943, 1, <<>>>>, <<42944, 3, <<42945>>>>, <<42945, 1, <<>>>>,
      <<42946, 3, <<42947>>>>, <<42947, 1, <<>>>>, <<42948, 3, <<42900>>>>,
      <<42949, 3, <<642>>>>, <<42950, 3, <<7566>>>>, <<42951, 3, <<42952>>>>,
      <<42952, 1, <<>>>>, <<42953, 3, <<42954>>>>, <<42954, 1, <<>>>>, <<42955, 2, <<>>>>,
      <<42960, 3, <<42961>>>>, <<42961, 1, <<>>>>, <<42962, 2, <<>>>>, <<42963, 1, <<>>>>,
      <<42964, 2, <<>>>>, <<42965, 1, <<>>>>, <<42966, 3, <<42967>>>>, <<42967, 1, <<>>>>,
      <<42968, 3, <<42969>>>>, <<42969, 1, <<>>>>, <<42970, 2, <<>>>>, <<42994, 3, <<99>>>>,
      <<42995, 3, <<102>>>>, <<42996, 3, <<113>>>>, <<42997, 3, <<42998>>>>, <<42998, 1, <<>>>>,
      <<43000, 3, <<295>>>>, <<43001, 3, <<339>>>>, <<43002, 1, <<>>>>, <<43053, 2, <<>>>>,
      <<43056, 1, <<>>>>, <<43066, 2, <<>>>>, <<43072, 1, <<>>>>, <<43128, 2, <<>>>>,
      <<43136, 1, <<>>>>, <<43206, 2, <<>>>>, <<43214, 1, <<>>>>, <<43226, 2, <<>>>>,
      <<43232, 1, <<>>>>, <<43348, 2, <<>>>>, <<43359, 1, <<>>>>, <<43389, 2, <<>>>>,
      <<43392, 1, <<>>>>, <<43470, 2, <<>>>>, <<43471, 1, <<>>>>, <<43482, 2, <<>>>>,
      <<43486, 1, <<>>>>, <<43519, 2, <<>>>>, <<43520, 1, <<>>>>, <<43575, 2, <<>>>>,
      <<43584, 1, <<>>>>, <<43598, 2, <<>>>>, <<43600, 1, <<>>>>, <<43610, 2, <<>>>>,
      <<43612, 1, <<>>>>, <<43715, 2, <<>>>>, <<43739, 1, <<>>>>, <<43767, 2, <<>>>>,
      <<43777, 1, <<>>>>, <<43783, 2, <<>>>>, <<43785, 1, <<>>>>, <<43791, 2, <<>>>>,
      <<43793, 1, <<>>>>, <<43799, 2, <<>>>>, <<43808, 1, <<>>>>, <<43815, 2, <<>>>>,
      <<43816, 1, <<>>>>, <<43823, 2, <<>>>>, <<43824, 1, <<>>>>, <<43868, 3, <<42791>>>>,
      <<43869, 3, <<43831>>>>, <<43870, 3, <<619>>>>, <<43871, 3, <<43858>>>>,
      <<43872, 1, <<>>>>, <<43881, 3, <<653>>>>, <<43882, 1, <<>>>>, <<43884, 2, <<>>>>,
      <<43888, 3, <<5024>>>>, <<43889, 3, <<5025>>>>, <<43890, 3, <<5026>>>>,
      <<43891, 3, <<5027>>>>, <<43892, 3, <<5028>>>>, <<43893, 3, <<5029>>>>,
      <<43894, 3, <<5030>>>>, <<43895, 3, <<5031>>>>, <<43896, 3, <<5032>>>>,
      <<43897, 3, <<5033>>>>, <<43898, 3, <<5034>>>>, <<43899, 3, <<5035>>>>,
      <<43900, 3, <<5036>>>>, <<43901, 3, <<5037>>>>, <<43902, 3, <<5038>>>>,
      <<43903, 3, <<5039>>>>, <<43904, 3, <<5040>>>>, <<43905, 3, <<5041>>>>,
      <<43906, 3, <<5042>>>>, <<43907, 3, <<5043>>>>, <<43908, 3, <<5044>>>>,
      <<43909, 3, <<5045>>>>, <<43910, 3, <<5046>>>>, <<43911, 3, <<5047>>>>,
      <<43912, 3, <<5048>>>>, <<43913, 3, <<5049>>>>, <<43914, 3, <<5050>>>>,
      <<43915, 3, <<5051>>>>, <<43916, 3, <<5052>>>>, <<43917, 3, <<5053>>>>,
      <<43918, 3, <<5054>>>>, <<43919, 3, <<5055>>>>, <<43920, 3, <<5056>>>>,
      <<43921, 3, <<5057>>>>, <<43922, 3, <<5058>>>>, <<43923, 3, <<5059>>>>,
      <<43924, 3, <<5060>>>>, <<43925, 3, <<5061>>>>, <<43926, 3, <<5062>>>>,
      <<43927, 3, <<5063>>>>, <<43928, 3, <<5064>>>>, <<43929, 3, <<5065>>>>,
      <<43930, 3, <<5066>>>>, <<43931, 3, <<5067>>>>, <<43932, 3, <<5068>>>>,
      <<43933, 3, <<5069>>>>, <<43934, 3, <<5070>>>>, <<43935, 3, <<5071>>>>,
      <<43936, 3, <<5072>>>>, <<43937, 3, <<5073>>>>, <<43938, 3, <<5074>>>>,
      <<43939, 3, <<5075>>>>, <<43940, 3, <<5076>>>>, <<43941, 3, <<5077>>>>,
      <<43942, 3, <<5078>>>>, <<43943, 3, <<5079>>>>, <<43944, 3, <<5080>>>>,
      <<43945, 3, <<5081>>>>, <<43946, 3, <<5082>>>>, <<43947, 3, <<5083>>>>,
      <<43948, 3, <<5084>>>>, <<43949, 3, <<5085>>>>, <<43950, 3, <<5086>>>>,
      <<43951, 3, <<5087>>>>, <<43952, 3, <<5088>>>>, <<43953, 3, <<5089>>>>,
      <<43954, 3, <<5090>>>>, <<43955, 3, <<5091>>>>, <<43956, 3, <<5092>>>>,
      <<43957, 3, <<5093>>>>, <<43958, 3, <<5094>>>>, <<43959, 3, <<5095>>>>,
      <<43960, 3, <<5096>>>>, <<43961, 3, <<5097>>>>, <<43962, 3, <<5098>>>>,
      <<43963, 3, <<5099>>>>, <<43964, 3, <<5100>>>>, <<43965, 3, <<5101>>>>,
      <<43966, 3, <<5102>>>>, <<43967, 3, <<5103>>>>, <<43968, 1, <<>>>>, <<44014, 2, <<>>>>,
      <<44016, 1, <<>>>>, <<44026, 2, <<>>>>, <<44032, 1, <<>>>>, <<55204, 2, <<>>>>,
      <<55216, 1, <<>>>>, <<55239, 2, <<>>>>, <<55243, 1, <<>>>>, <<55292, 2, <<>>>>,
      <<63744, 3, <<35912>>>>, <<63745, 3, <<26356>>>>, <<63746, 3, <<36554>>>>,
      <<63747, 3, <<36040>>>>, <<63748, 3, <<28369>>>>, <<63749, 3, <<20018>>>>,
      <<63750, 3, <<21477>>>>, <<63751, 3, <<40860>>>>, <<63753, 3, <<22865>>>>,
      <<63754, 3, <<37329>>>>, <<63755, 3, <<21895>>>>, <<63756, 3, <<22856>>>>,
      <<63757, 3, <<25078>>>>, <<63758, 3, <<30313>>>>, <<63759, 3, <<32645>>>>,
      <<63760, 3, <<34367>>>>, <<63761, 3, <<34746>>>>, <<63762, 3, <<35064>>>>,
      <<63763, 3, <<37007>>>>, <<63764, 3, <<27138>>>>, <<63765, 3, <<27931>>>>,
      <<63766, 3, <<28889>>>>, <<63767, 3, <<29662>>>>, <<63768, 3, <<33853>>>>,
      <<63769, 3, <<37226>>>>, <<63770, 3, <<39409>>>>, <<63771, 3, <<20098>>>>,
      <<63772, 3, <<21365>>>>, <<63773, 3, <<27396>>>>, <<63774, 3, <<29211>>>>,
      <<63775, 3, <<34349>>>>, <<63776, 3, <<40478>>>>, <<63777, 3, <<23888>>>>,
      <<63778, 3, <<28651>>>>, <<63779, 3, <<34253>>>>, <<63780, 3, <<35172>>>>,
      <<63781, 3, <<25289>>>>, <<63782, 3, <<33240>>>>, <<63783, 3, <<34847>>>>,
      <<63784, 3, <<24266>>>>, <<63785, 3, <<26391>>>>, <<63786, 3, <<28010>>>>,
      <<63787, 3, <<29436>>>>, <<63788, 3, <<37070>>>>, <<63789, 3, <<20358>>>>,
      <<63790, 3, <<20919>>>>, <<63791, 3, <<21214>>>>, <<63792, 3, <<25796>>>>,
      <<63793, 3, <<27347>>>>, <<63794, 3, <<29200>>>>, <<63795, 3, <<30439>>>>,
      <<63796, 3, <<32769>>>>, <<63797, 3, <<34310>>>>, <<63798, 3, <<34396>>>>,
      <<63799, 3, <<36335>>>>, <<63800, 3, <<38706>>>>, <<63801, 3, <<39791>>>>,
      <<63802, 3, <<40442>>>>, <<63803, 3, <<30860>>>>, <<63804, 3, <<31103>>>>,
      <<63805, 3, <<32160>>>>, <<63806, 3, <<33737>>>>, <<63807, 3, <<37636>>>>,
      <<63808, 3, <<40575>>>>, <<63809, 3, <<35542>>>>, <<63810, 3, <<22751>>>>,
      <<63811, 3, <<24324>>>>, <<63812, 3, <<31840>>>>, <<63813, 3, <<32894>>>>,
      <<63814, 3, <<29282>>>>, <<63815, 3, <<30922>>>>, <<63816, 3, <<36034>>>>,
      <<63817, 3, <<38647>>>>, <<63818, 3, <<22744>>>>, <<63819, 3, <<23650>>>>,
      <<63820, 3, <<27155>>>>, <<63821, 3, <<28122>>>>, <<63822, 3, <<28431>>>>,
      <<63823, 3, <<32047>>>>, <<63824, 3, <<32311>>>>, <<63825, 3, <<38475>>>>,
      <<63826, 3, <<21202>>>>, <<63827, 3, <<32907>>>>, <<63828, 3, <<20956>>>>,
      <<63829, 3, <<20940>>>>, <<63830, 3, <<31260>>>>, <<63831, 3, <<32190>>>>,
      <<63832, 3, <<33777>>>>, <<63833, 3, <<38517>>>>, <<63834, 3, <<35712>>>>,
      <<63835, 3, <<25295>>>>, <<63836, 3, <<27138>>>>, <<63837, 3, <<35582>>>>,
      <<63838, 3, <<20025>>>>, <<63839, 3, <<23527>>>>, <<63840, 3, <<24594>>>>,
      <<63841, 3, <<29575>>>>, <<63842, 3, <<30064>>>>, <<63843, 3, <<21271>>>>,
      <<63844, 3, <<30971>>>>, <<63845, 3, <<20415>>>>, <<63846, 3, <<24489>>>>,
      <<63847, 3, <<19981>>>>, <<63848, 3, <<27852>>>>, <<63849, 3, <<25976>>>>,
      <<63850, 3, <<32034>>>>, <<63851, 3, <<21443>>>>, <<63852, 3, <<22622>>>>,
      <<63853, 3, <<30465>>>>, <<63854, 3, <<33865>>>>, <<63855, 3, <<35498>>>>,
      <<63856, 3, <<27578>>>>, <<63857, 3, <<36784>>>>, <<63858, 3, <<27784>>>>,
      <<63859, 3, <<25342>>>>, <<63860, 3, <<33509>>>>, <<63861, 3, <<25504>>>>,
      <<63862, 3, <<30053>>>>, <<63863, 3, <<20142>>>>, <<63864, 3, <<20841>>>>,
      <<63865, 3, <<20937>>>>, <<63866, 3, <<26753>>>>, <<63867, 3, <<31975>>>>,
      <<63868, 3, <<33391>>>>, <<63869, 3, <<35538>>>>, <<63870, 3, <<37327>>>>,
      <<63871, 3, <<21237>>>>, <<63872, 3, <<21570>>>>, <<63873, 3, <<22899>>>>,
      <<63874, 3, <<24300>>>>, <<63875, 3, <<26053>>>>, <<63876, 3, <<28670>>>>,
      <<63877, 3, <<31018>>>>, <<63878, 3, <<38317>>>>, <<63879, 3, <<39530>>>>,
      <<63880, 3, <<40599>>>>, <<63881, 3, <<40654>>>>, <<63882, 3, <<21147>>>>,
      <<63883, 3, <<26310>>>>, <<63884, 3, <<27511>>>>, <<63885, 3, <<36706>>>>,
      <<63886, 3, <<24180>>>>, <<63887, 3, <<24976>>>>, <<63888, 3, <<25088>>>>,
      <<63889, 3, <<25754>>>>, <<63890, 3, <<28451>>>>, <<63891, 3, <<29001>>>>,
      <<63892, 3, <<29833>>>>, <<63893, 3, <<31178>>>>, <<63894, 3, <<32244>>>>,
      <<63895, 3, <<32879>>>>, <<63896, 3, <<36646>>>>, <<63897, 3, <<34030>>>>,
      <<63898, 3, <<36899>>>>, <<63899, 3, <<37706>>>>, <<63900, 3, <<21015>>>>,
      <<63901, 3, <<21155>>>>, <<63902, 3, <<21693>>>>, <<63903, 3, <<28872>>>>,
      <<63904, 3, <<35010>>>>, <<63905, 3, <<35498>>>>, <<63906, 3, <<24265>>>>,
      <<63907, 3, <<24565>>>>, <<63908, 3, <<25467>>>>, <<63909, 3, <<27566>>>>,
      <<63910, 3, <<31806>>>>, <<63911, 3, <<29557>>>>, <<63912, 3, <<20196>>>>,
      <<63913, 3, <<22265>>>>, <<63914, 3, <<23527>>>>, <<63915, 3, <<23994>>>>,
      <<63916, 3, <<24604>>>>, <<63917, 3, <<29618>>>>, <<63918, 3, <<29801>>>>,
      <<63919, 3, <<32666>>>>, <<63920, 3, <<32838>>>>, <<63921, 3, <<37428>>>>,
      <<63922, 3, <<38646>>>>, <<63923, 3, <<38728>>>>, <<63924, 3, <<38936>>>>,
      <<63925, 3, <<20363>>>>, <<63926, 3, <<31150>>>>, <<63927, 3, <<37300>>>>,
      <<63928, 3, <<38584>>>>, <<63929, 3, <<24801>>>>, <<63930, 3, <<20102>>>>,
      <<63931, 3, <<20698>>>>, <<63932, 3, <<23534>>>>, <<63933, 3, <<23615>>>>,
      <<63934, 3, <<26009>>>>, <<63935, 3, <<27138>>>>, <<63936, 3, <<29134>>>>,
      <<63937, 3, <<30274>>>>, <<63938, 3, <<34044>>>>, <<63939, 3, <<36988>>>>,
      <<63940, 3, <<40845>>>>, <<63941, 3, <<26248>>>>, <<63942, 3, <<38446>>>>,
      <<63943, 3, <<21129>>>>, <<63944, 3, <<26491>>>>, <<63945, 3, <<26611>>>>,
      <<63946, 3, <<27969>>>>, <<63947, 3, <<28316>>>>, <<63948, 3, <<29705>>>>,
      <<63949, 3, <<30041>>>>, <<63950, 3, <<30827>>>>, <<63951, 3, <<32016>>>>,
      <<63952, 3, <<39006>>>>, <<63953, 3, <<20845>>>>, <<63954, 3, <<25134>>>>,
      <<63955, 3, <<38520>>>>, <<63956, 3, <<20523>>>>, <<63957, 3, <<23833>>>>,
      <<63958, 3, <<28138>>>>, <<63959, 3, <<36650>>>>, <<63960, 3, <<24459>>>>,
      <<63961, 3, <<24900>>>>, <<63962, 3, <<26647>>>>, <<63963, 3, <<29575>>>>,
      <<63964, 3, <<38534>>>>, <<63965, 3, <<21033>>>>, <<63966, 3, <<21519>>>>,
      <<63967, 3, <<23653>>>>, <<63968, 3, <<26131>>>>, <<63969, 3, <<26446>>>>,
      <<63970, 3, <<26792>>>>, <<63971, 3, <<27877>>>>, <<63972, 3, <<29702>>>>,
      <<63973, 3, <<30178>>>>, <<63974, 3, <<32633>>>>, <<63975, 3, <<35023>>>>,
      <<63976, 3, <<35041>>>>, <<63977, 3, <<37324>>>>, <<63978, 3, <<38626>>>>,
      <<63979, 3, <<21311>>>>, <<63980, 3, <<28346>>>>, <<63981, 3, <<21533>>>>,
      <<63982, 3, <<29136>>>>, <<63983, 3, <<29848>>>>, <<63984, 3, <<34298>>>>,
      <<63985, 3, <<38563>>>>, <<63986, 3, <<40023>>>>, <<63987, 3, <<40607>>>>,
      <<63988, 3, <<26519>>>>, <<63989, 3, <<28107>>>>, <<63990, 3, <<33256>>>>,
      <<63991, 3, <<31435>>>>, <<63992, 3, <<31520>>>>, <<63993, 3, <<31890>>>>,
      <<63994, 3, <<29376>>>>, <<63995, 3, <<28825>>>>, <<63996, 3, <<35672>>>>,
      <<63997, 3, <<20160>>>>, <<63998, 3, <<33590>>>>, <<63999, 3, <<21050>>>>,
      <<64000, 3, <<20999>>>>, <<64001, 3, <<24230>>>>, <<64002, 3, <<25299>>>>,
      <<64003, 3, <<31958>>>>, <<64004, 3, <<23429>>>>, <<64005, 3, <<27934>>>>,
      <<64006, 3, <<26292>>>>, <<64007, 3, <<36667>>>>, <<64008, 3, <<34892>>>>,
      <<64009, 3, <<38477>>>>, <<64010, 3, <<35211>>>>, <<64011, 3, <<24275>>>>,
      <<64012, 3, <<20800>>>>, <<64013, 3, <<21952>>>>, <<64014, 1, <<>>>>,
      <<64016, 3, <<22618>>>>, <<64017, 1, <<>>>>, <<64018, 3, <<26228>>>>, <<64019, 1, <<>>>>,
      <<64021, 3, <<20958>>>>, <<64022, 3, <<29482>>>>, <<64023, 3, <<30410>>>>,
      <<64024, 3, <<31036>>>>, <<64025, 3, <<31070>>>>, <<64026, 3, <<31077>>>>,
      <<64027, 3, <<31119>>>>, <<64028, 3, <<38742>>>>, <<64029, 3, <<31934>>>>,
      <<64030, 3, <<32701>>>>, <<64031, 1, <<>>>>, <<64032, 3, <<34322>>>>, <<64033, 1, <<>>>>,
      <<64034, 3, <<35576>>>>, <<64035, 1, <<>>>>, <<64037, 3, <<36920>>>>,
      <<64038, 3, <<37117>>>>, <<64039, 1, <<>>>>, <<64042, 3, <<39151>>>>,
      <<64043, 3, <<39164>>>>, <<64044, 3, <<39208>>>>, <<64045, 3, <<40372>>>>,
      <<64046, 3, <<37086>>>>, <<64047, 3, <<38583>>>>, <<64048, 3, <<20398>>>>,
      <<64049, 3, <<20711>>>>, <<64050, 3, <<20813>>>>, <<64051, 3, <<21193>>>>,
      <<64052, 3, <<21220>>>>, <<64053, 3, <<21329>>>>, <<64054, 3, <<21917>>>>,
      <<64055, 3, <<22022>>>>, <<64056, 3, <<22120>>>>, <<64057, 3, <<22592>>>>,
      <<64058, 3, <<22696>>>>, <<64059, 3, <<23652>>>>, <<64060, 3, <<23662>>>>,
      <<64061, 3, <<24724>>>>, <<64062, 3, <<24936>>>>, <<64063, 3, <<24974>>>>,
      <<64064, 3, <<25074>>>>, <<64065, 3, <<25935>>>>, <<64066, 3, <<26082>>>>,
      <<64067, 3, <<26257>>>>, <<64068, 3, <<26757>>>>, <<64069, 3, <<28023>>>>,
      <<64070, 3, <<28186>>>>, <<64071, 3, <<28450>>>>, <<64072, 3, <<29038>>>>,
      <<64073, 3, <<29227>>>>, <<64074, 3, <<29730>>>>, <<64075, 3, <<30865>>>>,
      <<64076, 3, <<31038>>>>, <<64077, 3, <<31049>>>>, <<64078, 3, <<31048>>>>,
      <<64079, 3, <<31056>>>>, <<64080, 3, <<31062>>>>, <<64081, 3, <<31069>>>>,
      <<64082, 3, <<31117>>>>, <<64083, 3, <<31118>>>>, <<64084, 3, <<31296>>>>,
      <<64085, 3, <<31361>>>>, <<64086, 3, <<31680>>>>, <<64087, 3, <<32244>>>>,
      <<64088, 3, <<32265>>>>, <<64089, 3, <<32321>>>>, <<64090, 3, <<32626>>>>,
      <<64091, 3, <<32773>>>>, <<64092, 3, <<33261>>>>, <<64093, 3, <<33401>>>>,
      <<64095, 3, <<33879>>>>, <<64096, 3, <<35088>>>>, <<64097, 3, <<35222>>>>,
      <<64098, 3, <<35585>>>>, <<64099, 3, <<35641>>>>, <<64100, 3, <<36051>>>>,
      <<64101, 3, <<36104>>>>, <<64102, 3, <<36790>>>>, <<64103, 3, <<36920>>>>,
      <<64104, 3, <<38627>>>>, <<64105, 3, <<38911>>>>, <<64106, 3, <<38971>>>>,
      <<64107, 3, <<24693>>>>, <<64108, 3, <<148206>>>>, <<64109, 3, <<33304>>>>,
      <<64110, 2, <<>>>>, <<64112, 3, <<20006>>>>, <<64113, 3, <<20917>>>>,
      <<64114, 3, <<20840>>>>, <<64115, 3, <<20352>>>>, <<64116, 3, <<20805>>>>,
      <<64117, 3, <<20864>>>>, <<64118, 3, <<21191>>>>, <<64119, 3, <<21242>>>>,
      <<64120, 3, <<21917>>>>, <<64121, 3, <<21845>>>>, <<64122, 3, <<21913>>>>,
      <<64123, 3, <<21986>>>>, <<64124, 3, <<22618>>>>, <<64125, 3, <<22707>>>>,
      <<64126, 3, <<22852>>>>, <<64127, 3, <<22868>>>>, <<64128, 3, <<23138>>>>,
      <<64129, 3, <<23336>>>>, <<64130, 3, <<24274>>>>, <<64131, 3, <<24281>>>>,
      <<64132, 3, <<24425>>>>, <<64133, 3, <<24493>>>>, <<64134, 3, <<24792>>>>,
      <<64135, 3, <<24910>>>>, <<64136, 3, <<24840>>>>, <<64137, 3, <<24974>>>>,
      <<64138, 3, <<24928>>>>, <<64139, 3, <<25074>>>>, <<64140, 3, <<25140>>>>,
      <<64141, 3, <<25540>>>>, <<64142, 3, <<25628>>>>, <<64143, 3, <<25682>>>>,
      <<64144, 3, <<25942>>>>, <<64145, 3, <<26228>>>>, <<64146, 3, <<26391>>>>,
      <<64147, 3, <<26395>>>>, <<64148, 3, <<26454>>>>, <<64149, 3, <<27513>>>>,
      <<64150, 3, <<27578>>>>, <<64151, 3, <<27969>>>>, <<64152, 3, <<28379>>>>,
      <<64153, 3, <<28363>>>>, <<64154, 3, <<28450>>>>, <<64155, 3, <<28702>>>>,
      <<64156, 3, <<29038>>>>, <<64157, 3, <<30631>>>>, <<64158, 3, <<29237>>>>,
      <<64159, 3, <<29359>>>>, <<64160, 3, <<29482>>>>, <<64161, 3, <<29809>>>>,
      <<64162, 3, <<29958>>>>, <<64163, 3, <<30011>>>>, <<64164, 3, <<30237>>>>,
      <<64165, 3, <<30239>>>>, <<64166, 3, <<30410>>>>, <<64167, 3, <<30427>>>>,
      <<64168, 3, <<30452>>>>, <<64169, 3, <<30538>>>>, <<64170, 3, <<30528>>>>,
      <<64171, 3, <<30924>>>>, <<64172, 3, <<31409>>>>, <<64173, 3, <<31680>>>>,
      <<64174, 3, <<31867>>>>, <<64175, 3, <<32091>>>>, <<64176, 3, <<32244>>>>,
      <<64177, 3, <<32574>>>>, <<64178, 3, <<32773>>>>, <<64179, 3, <<33618>>>>,
      <<64180, 3, <<33775>>>>, <<64181, 3, <<34681>>>>, <<64182, 3, <<35137>>>>,
      <<64183, 3, <<35206>>>>, <<64184, 3, <<35222>>>>, <<64185, 3, <<35519>>>>,
      <<64186, 3, <<35576>>>>, <<64187, 3, <<35531>>>>, <<64188, 3, <<35585>>>>,
      <<64189, 3, <<35582>>>>, <<64190, 3, <<35565>>>>, <<64191, 3, <<35641>>>>,
      <<64192, 3, <<35722>>>>, <<64193, 3, <<36104>>>>, <<64194, 3, <<36664>>>>,
      <<64195, 3, <<36978>>>>, <<64196, 3, <<37273>>>>, <<64197, 3, <<37494>>>>,
      <<64198, 3, <<38524>>>>, <<64199, 3, <<38627>>>>, <<64200, 3, <<38742>>>>,
      <<64201, 3, <<38875>>>>, <<64202, 3, <<38911>>>>, <<64203, 3, <<38923>>>>,
      <<64204, 3, <<38971>>>>, <<64205, 3, <<39698>>>>, <<64206, 3, <<40860>>>>,
      <<64207, 3, <<141386>>>>, <<64208, 3, <<141380>>>>, <<64209, 3, <<144341>>>>,
      <<64210, 3, <<15261>>>>, <<64211, 3, <<16408>>>>, <<64212, 3, <<16441>>>>,
      <<64213, 3, <<152137>>>>, <<64214, 3, <<154832>>>>, <<64215, 3, <<163539>>>>,
      <<64216, 3, <<40771>>>>, <<64217, 3, <<40846>>>>, <<64218, 2, <<>>>>,
      <<64256, 3, <<102, 102>>>>, <<64257, 3, <<102, 105>>>>, <<64258, 3, <<102, 108>>>>,
      <<64259, 3, <<102, 102, 105>>>>, <<64260, 3, <<102, 102, 108>>>>,
      <<64261, 3, <<115, 116>>>>, <<64263, 2, <<>>>>, <<64275, 3, <<1396, 1398>>>>,
      <<64276, 3, <<1396, 1381>>>>, <<64277, 3, <<1396, 1387>>>>, <<64278, 3, <<1406, 1398>>>>,
      <<64279, 3, <<1396, 1389>>>>, <<64280, 2, <<>>>>, <<64285, 3, <<1497, 1460>>>>,
      <<64286, 1, <<>>>>, <<64287, 3, <<1522, 1463>>>>, <<64288, 3, <<1506>>>>,
      <<64289, 3, <<1488>>>>, <<64290, 3, <<1491>>>>, <<64291, 3, <<1492>>>>,
      <<64292, 3, <<1499>>>>, <<64293, 3, <<1500>>>>, <<64294, 3, <<1501>>>>,
      <<64295, 3, <<1512>>>>, <<64296, 3, <<1514>>>>, <<64297, 3, <<43>>>>,
      <<64298, 3, <<1513, 1473>>>>, <<64299, 3, <<1513, 1474>>>>,
      <<64300, 3, <<1513, 1468, 1473>>>>, <<64301, 3, <<1513, 1468, 1474>>>>,
      <<64302, 3, <<1488, 1463>>>>, <<64303, 3, <<1488, 1464>>>>, <<64304, 3, <<1488, 1468>>>>,
      <<64305, 3, <<1489, 1468>>>>, <<64306, 3, <<1490, 1468>>>>, <<64307, 3, <<1491, 1468>>>>,
      <<64308, 3, <<1492, 1468>>>>, <<64309, 3, <<1493, 1468>>>>, <<64310, 3, <<1494, 1468>>>>,
      <<64311, 2, <<>>>>, <<64312, 3, <<1496, 1468>>>>, <<64313, 3, <<1497, 1468>>>>,
      <<64314, 3, <<1498, 1468>>>>, <<64315, 3, <<1499, 1468>>>>, <<64316, 3, <<1500, 1468>>>>,
      <<64317, 2, <<>>>>, <<64318, 3, <<1502, 1468>>>>, <<64319, 2, <<>>>>,
      <<64320, 3, <<1504, 1468>>>>, <<64321, 3, <<1505, 1468>>>>, <<64322, 2, <<>>>>,
      <<64323, 3, <<1507, 1468>>>>, <<64324, 3, <<1508, 1468>>>>, <<64325, 2, <<>>>>,
      <<64326, 3, <<1510, 1468>>>>, <<64327, 3, <<1511, 1468>>>>, <<64328, 3, <<1512, 1468>>>>,
      <<64329, 3, <<1513, 1468>>>>, <<64330, 3, <<1514, 1468>>>>, <<64331, 3, <<1493, 1465>>>>,
      <<64332, 3, <<1489, 1471>>>>, <<64333, 3, <<1499, 1471>>>>, <<64334, 3, <<1508, 1471>>>>,
      <<64335, 3, <<1488, 1500>>>>, <<64336, 3, <<1649>>>>, <<64338, 3, <<1659>>>>,
      <<64342, 3, <<1662>>>>, <<64346, 3, <<1664>>>>, <<64350, 3, <<1658>>>>,
      <<64354, 3, <<1663>>>>, <<64358, 3, <<1657>>>>, <<64362, 3, <<1700>>>>,
      <<64366, 3, <<1702>>>>, <<64370, 3, <<1668>>>>, <<64374, 3, <<1667>>>>,
      <<64378, 3, <<1670>>>>, <<64382, 3, <<1671>>>>, <<64386, 3, <<1677>>>>,
      <<64388, 3, <<1676>>>>, <<64390, 3, <<1678>>>>, <<64392, 3, <<1672>>>>,
      <<64394, 3, <<1688>>>>, <<64396, 3, <<1681>>>>, <<64398, 3, <<1705>>>>,
      <<64402, 3, <<1711>>>>, <<64406, 3, <<1715>>>>, <<64410, 3, <<1713>>>>,
      <<64414, 3, <<1722>>>>, <<64416, 3, <<1723>>>>, <<64420, 3, <<1728>>>>,
      <<64422, 3, <<1729>>>>, <<64426, 3, <<1726>>>>, <<64430, 3, <<1746>>>>,
      <<64432, 3, <<1747>>>>, <<64434, 1, <<>>>>, <<64451, 2, <<>>>>, <<64467, 3, <<1709>>>>,
      <<64471, 3, <<1735>>>>, <<64473, 3, <<1734>>>>, <<64475, 3, <<1736>>>>,
      <<64477, 3, <<1735, 1652>>>>, <<64478, 3, <<1739>>>>, <<64480, 3, <<1733>>>>,
      <<64482, 3, <<1737>>>>, <<64484, 3, <<1744>>>>, <<64488, 3, <<1609>>>>,
      <<64490, 3, <<1574, 1575>>>>, <<64492, 3, <<1574, 1749>>>>, <<64494, 3, <<1574, 1608>>>>,
      <<64496, 3, <<1574, 1735>>>>, <<64498, 3, <<1574, 1734>>>>, <<64500, 3, <<1574, 1736>>>>,
      <<64502, 3, <<1574, 1744>>>>, <<64505, 3, <<1574, 1609>>>>, <<64508, 3, <<1740>>>>,
      <<64512, 3, <<1574, 1580>>>>, <<64513, 3, <<1574, 1581>>>>, <<64514, 3, <<1574, 1605>>>>,
      <<64515, 3, <<1574, 1609>>>>, <<64516, 3, <<1574, 1610>>>>, <<64517, 3, <<1576, 1580>>>>,
      <<64518, 3, <<1576, 1581>>>>, <<64519, 3, <<1576, 1582>>>>, <<64520, 3, <<1576, 1605>>>>,
      <<64521, 3, <<1576, 1609>>>>, <<64522, 3, <<1576, 1610>>>>, <<64523, 3, <<1578, 1580>>>>,
      <<64524, 3, <<1578, 1581>>>>, <<64525, 3, <<1578, 1582>>>>, <<64526, 3, <<1578, 1605>>>>,
      <<64527, 3, <<1578, 1609>>>>, <<64528, 3, <<1578, 1610>>>>, <<64529, 3, <<1579, 1580>>>>,
      <<64530, 3, <<1579, 1605>>>>, <<64531, 3, <<1579, 1609>>>>, <<64532, 3, <<1579, 1610>>>>,
      <<64533, 3, <<1580, 1581>>>>, <<64534, 3, <<1580, 1605>>>>, <<64535, 3, <<1581, 1580>>>>,
      <<64536, 3, <<1581, 1605>>>>, <<64537, 3, <<1582, 1580>>>>, <<64538, 3, <<1582, 1581>>>>,
      <<64539, 3, <<1582, 1605>>>>, <<64540, 3, <<1587, 1580>>>>, <<64541, 3, <<1587, 1581>>>>,
      <<64542, 3, <<1587, 1582>>>>, <<64543, 3, <<1587, 1605>>>>, <<64544, 3, <<1589, 1581>>>>,
      <<64545, 3, <<1589, 1605>>>>, <<64546, 3, <<1590, 1580>>>>, <<64547, 3, <<1590, 1581>>>>,
      <<64548, 3, <<1590, 1582>>>>, <<64549, 3, <<1590, 1605>>>>, <<64550, 3, <<1591, 1581>>>>,
      <<64551, 3, <<1591, 1605>>>>, <<64552, 3, <<1592, 1605>>>>, <<64553, 3, <<1593, 1580>>>>,
      <<64554, 3, <<1593, 1605>>>>, <<64555, 3, <<1594, 1580>>>>, <<64556, 3, <<1594, 1605>>>>,
      <<64557, 3, <<1601, 1580>>>>, <<64558, 3, <<1601, 1581>>>>, <<64559, 3, <<1601, 1582>>>>,
      <<64560, 3, <<1601, 1605>>>>, <<64561, 3, <<1601, 1609>>>>, <<64562, 3, <<1601, 1610>>>>,
      <<64563, 3, <<1602, 1581>>>>, <<64564, 3, <<1602, 1605>>>>, <<64565, 3, <<1602, 1609>>>>,
      <<64566, 3, <<1602, 1610>>>>, <<64567, 3, <<1603, 1575>>>>, <<64568, 3, <<1603, 1580>>>>,
      <<64569, 3, <<1603, 1581>>>>, <<64570, 3, <<1603, 1582>>>>, <<64571, 3, <<1603, 1604>>>>,
      <<64572, 3, <<1603, 1605>>>>, <<64573, 3, <<1603, 1609>>>>, <<64574, 3, <<1603, 1610>>>>,
      <<64575, 3, <<1604, 1580>>>>, <<64576, 3, <<1604, 1581>>>>, <<64577, 3, <<1604, 1582>>>>,
      <<64578, 3, <<1604, 1605>>>>, <<64579, 3, <<1604, 1609>>>>, <<64580, 3, <<1604, 1610>>>>,
      <<64581, 3, <<1605, 1580>>>>, <<64582, 3, <<1605, 1581>>>>, <<64583, 3, <<1605, 1582>>>>,
      <<64584, 3, <<1605, 1605>>>>, <<64585, 3, <<1605, 1609>>>>, <<64586, 3, <<1605, 1610>>>>,
      <<64587, 3, <<1606, 1580>>>>, <<64588, 3, <<1606, 1581>>>>, <<64589, 3, <<1606, 1582>>>>,
      <<64590, 3, <<1606, 1605>>>>, <<64591, 3, <<1606, 1609>>>>, <<64592, 3, <<1606, 1610>>>>,
      <<64593, 3, <<1607, 1580>>>>, <<64594, 3, <<1607, 1605>>>>, <<64595, 3, <<1607, 1609>>>>,
      <<64596, 3, <<1607, 1610>>>>, <<64597, 3, <<1610, 1580>>>>, <<64598, 3, <<1610, 1581>>>>,
      <<64599, 3, <<1610, 1582>>>>, <<64600, 3, <<1610, 1605>>>>, <<64601, 3, <<1610, 1609>>>>,
      <<64602, 3, <<1610, 1610>>>>, <<64603, 3, <<1584, 1648>>>>, <<64604, 3, <<1585, 1648>>>>,
      <<64605, 3, <<1609, 1648>>>>, <<64606, 3, <<32, 1612, 1617>>>>,
      <<64607, 3, <<32, 1613, 1617>>>>, <<64608, 3, <<32, 1614, 1617>>>>,
      <<64609, 3, <<32, 1615, 1617>>>>, <<64610, 3, <<32, 1616, 1617>>>>,
      <<64611, 3, <<32, 1617, 1648>>>>, <<64612, 3, <<1574, 1585>>>>,
      <<64613, 3, <<1574, 1586>>>>, <<64614, 3, <<1574, 1605>>>>, <<64615, 3, <<1574, 1606>>>>,
      <<64616, 3, <<1574, 1609>>>>, <<64617, 3, <<1574, 1610>>>>, <<64618, 3, <<1576, 1585>>>>,
      <<64619, 3, <<1576, 1586>>>>, <<64620, 3, <<1576, 1605>>>>, <<64621, 3, <<1576, 1606>>>>,
      <<64622, 3, <<1576, 1609>>>>, <<64623, 3, <<1576, 1610>>>>, <<64624, 3, <<1578, 1585>>>>,
      <<64625, 3, <<1578, 1586>>>>, <<64626, 3, <<1578, 1605>>>>, <<64627, 3, <<1578, 1606>>>>,
      <<64628, 3, <<1578, 1609>>>>, <<64629, 3, <<1578, 1610>>>>, <<64630, 3, <<1579, 1585>>>>,
      <<64631, 3, <<1579, 1586>>>>, <<64632, 3, <<1579, 1605>>>>, <<64633, 3, <<1579, 1606>>>>,
      <<64634, 3, <<1579, 1609>>>>, <<64635, 3, <<1579, 1610>>>>, <<64636, 3, <<1601, 1609>>>>,
      <<64637, 3, <<1601, 1610>>>>, <<64638, 3, <<1602, 1609>>>>, <<64639, 3, <<1602, 1610>>>>,
      <<64640, 3, <<1603, 1575>>>>, <<64641, 3, <<1603, 1604>>>>, <<64642, 3, <<1603, 1605>>>>,
      <<64643, 3, <<1603, 1609>>>>, <<64644, 3, <<1603, 1610>>>>, <<64645, 3, <<1604, 1605>>>>,
      <<64646, 3, <<1604, 1609>>>>, <<64647, 3, <<1604, 1610>>>>, <<64648, 3, <<1605, 1575>>>>,
      <<64649, 3, <<1605, 1605>>>>, <<64650, 3, <<1606, 1585>>>>, <<64651, 3, <<1606, 1586>>>>,
      <<64652, 3, <<1606, 1605>>>>, <<64653, 3, <<1606, 1606>>>>, <<64654, 3, <<1606, 1609>>>>,
      <<64655, 3, <<1606, 1610>>>>, <<64656, 3, <<1609, 1648>>>>, <<64657, 3, <<1610, 1585>>>>,
      <<64658, 3, <<1610, 1586>>>>, <<64659, 3, <<1610, 1605>>>>, <<64660, 3, <<1610, 1606>>>>,
      <<64661, 3, <<1610, 1609>>>>, <<64662, 3, <<1610, 1610>>>>, <<64663, 3, <<1574, 1580>>>>,
      <<64664, 3, <<1574, 1581>>>>, <<64665, 3, <<1574, 1582>>>>, <<64666, 3, <<1574, 1605>>>>,
      <<64667, 3, <<1574, 1607>>>>, <<64668, 3, <<1576, 1580>>>>, <<64669, 3, <<1576, 1581>>>>,
      <<64670, 3, <<1576, 1582>>>>, <<64671, 3, <<1576, 1605>>>>, <<64672, 3, <<1576, 1607>>>>,
      <<64673, 3, <<1578, 1580>>>>, <<64674, 3, <<1578, 1581>>>>, <<64675, 3, <<1578, 1582>>>>,
      <<64676, 3, <<1578, 1605>>>>, <<64677, 3, <<1578, 1607>>>>, <<64678, 3, <<1579, 1605>>>>,
      <<64679, 3, <<1580, 1581>>>>, <<64680, 3, <<1580, 1605>>>>, <<64681, 3, <<1581, 1580>>>>,
      <<64682, 3, <<1581, 1605>>>>, <<64683, 3, <<1582, 1580>>>>, <<64684, 3, <<1582, 1605>>>>,
      <<64685, 3, <<1587, 1580>>>>, <<64686, 3, <<1587, 1581>>>>, <<64687, 3, <<1587, 1582>>>>,
      <<64688, 3, <<1587, 1605>>>>, <<64689, 3, <<1589, 1581>>>>, <<64690, 3, <<1589, 1582>>>>,
      <<64691, 3, <<1589, 1605>>>>, <<64692, 3, <<1590, 1580>>>>, <<64693, 3, <<1590, 1581>>>>,
      <<64694, 3, <<1590, 1582>>>>, <<64695, 3, <<1590, 1605>>>>, <<64696, 3, <<1591, 1581>>>>,
      <<64697, 3, <<1592, 1605>>>>, <<64698, 3, <<1593, 1580>>>>, <<64699, 3, <<1593, 1605>>>>,
      <<64700, 3, <<1594, 1580>>>>, <<64701, 3, <<1594, 1605>>>>, <<64702, 3, <<1601, 1580>>>>,
      <<64703, 3, <<1601, 1581>>>>, <<64704, 3, <<1601, 1582>>>>, <<64705, 3, <<1601, 1605>>>>,
      <<64706, 3, <<1602, 1581>>>>, <<64707, 3, <<1602, 1605>>>>, <<64708, 3, <<1603, 1580>>>>,
      <<64709, 3, <<1603, 1581>>>>, <<64710, 3, <<1603, 1582>>>>, <<64711, 3, <<1603, 1604>>>>,
      <<64712, 3, <<1603, 1605>>>>, <<64713, 3, <<1604, 1580>>>>, <<64714, 3, <<1604, 1581>>>>,
      <<64715, 3, <<1604, 1582>>>>, <<64716, 3, <<1604, 1605>>>>, <<64717, 3, <<1604, 1607>>>>,
      <<64718, 3, <<1605, 1580>>>>, <<64719, 3, <<1605, 1581>>>>, <<64720, 3, <<1605, 1582>>>>,
      <<64721, 3, <<1605, 1605>>>>, <<64722, 3, <<1606, 1580>>>>, <<64723, 3, <<1606, 1581>>>>,
      <<64724, 3, <<1606, 1582>>>>, <<64725, 3, <<1606, 1605>>>>, <<64726, 3, <<1606, 1607>>>>,
      <<64727, 3, <<1607, 1580>>>>, <<64728, 3, <<1607, 1605>>>>, <<64729, 3, <<1607, 1648>>>>,
      <<64730, 3, <<1610, 1580>>>>, <<64731, 3, <<1610, 1581>>>>, <<64732, 3, <<1610, 1582>>>>,
      <<64733, 3, <<1610, 1605>>>>, <<64734, 3, <<1610, 1607>>>>, <<64735, 3, <<1574, 1605>>>>,
      <<64736, 3, <<1574, 1607>>>>, <<64737, 3, <<1576, 1605>>>>, <<64738, 3, <<1576, 1607>>>>,
      <<64739, 3, <<1578, 1605>>>>, <<64740, 3, <<1578, 1607>>>>, <<64741, 3, <<1579, 1605>>>>,
      <<64742, 3, <<1579, 1607>>>>, <<64743, 3, <<1587, 1605>>>>, <<64744, 3, <<1587, 1607>>>>,
      <<64745, 3, <<1588, 1605>>>>, <<64746, 3, <<1588, 1607>>>>, <<64747, 3, <<1603, 1604>>>>,
      <<64748, 3, <<1603, 1605>>>>, <<64749, 3, <<1604, 1605>>>>, <<64750, 3, <<1606, 1605>>>>,
      <<64751, 3, <<1606, 1607>>>>, <<64752, 3, <<1610, 1605>>>>, <<64753, 3, <<1610, 1607>>>>,
      <<64754, 3, <<1600, 1614, 1617>>>>, <<64755, 3, <<1600, 1615, 1617>>>>,
      <<64756, 3, <<1600, 1616, 1617>>>>, <<64757, 3, <<1591, 1609>>>>,
      <<64758, 3, <<1591, 1610>>>>, <<64759, 3, <<1593, 1609>>>>, <<64760, 3, <<1593, 1610>>>>,
      <<64761, 3, <<1594, 1609>>>>, <<64762, 3, <<1594, 1610>>>>, <<64763, 3, <<1587, 1609>>>>,
      <<64764, 3, <<1587, 1610>>>>, <<64765, 3, <<1588, 1609>>>>, <<64766, 3, <<1588, 1610>>>>,
      <<64767, 3, <<1581, 1609>>>>, <<64768, 3, <<1581, 1610>>>>, <<64769, 3, <<1580, 1609>>>>,
      <<64770, 3, <<1580, 1610>>>>, <<64771, 3, <<1582, 1609>>>>, <<64772, 3, <<1582, 1610>>>>,
      <<64773, 3, <<1589, 1609>>>>, <<64774, 3, <<1589, 1610>>>>, <<64775, 3, <<1590, 1609>>>>,
      <<64776, 3, <<1590, 1610>>>>, <<64777, 3, <<1588, 1580>>>>, <<64778, 3, <<1588, 1581>>>>,
      <<64779, 3, <<1588, 1582>>>>, <<64780, 3, <<1588, 1605>>>>, <<64781, 3, <<1588, 1585>>>>,
      <<64782, 3, <<1587, 1585>>>>, <<64783, 3, <<1589, 1585>>>>, <<64784, 3, <<1590, 1585>>>>,
      <<64785, 3, <<1591, 1609>>>>, <<64786, 3, <<1591, 1610>>>>, <<64787, 3, <<1593, 1609>>>>,
      <<64788, 3, <<1593, 1610>>>>, <<64789, 3, <<1594, 1609>>>>, <<64790, 3, <<1594, 1610>>>>,
      <<64791, 3, <<1587, 1609>>>>, <<64792, 3, <<1587, 1610>>>>, <<64793, 3, <<1588, 1609>>>>,
      <<64794, 3, <<1588, 1610>>>>, <<64795, 3, <<1581, 1609>>>>, <<64796, 3, <<1581, 1610>>>>,
      <<64797, 3, <<1580, 1609>>>>, <<64798, 3, <<1580, 1610>>>>, <<64799, 3, <<1582, 1609>>>>,
      <<64800, 3, <<1582, 1610>>>>, <<64801, 3, <<1589, 1609>>>>, <<64802, 3, <<1589, 1610>>>>,
      <<64803, 3, <<1590, 1609>>>>, <<64804, 3, <<1590, 1610>>>>, <<64805, 3, <<1588, 1580>>>>,
      <<64806, 3, <<1588, 1581>>>>, <<64807, 3, <<1588, 1582>>>>, <<64808, 3, <<1588, 1605>>>>,
      <<64809, 3, <<1588, 1585>>>>, <<64810, 3, <<1587, 1585>>>>, <<64811, 3, <<1589, 1585>>>>,
      <<64812, 3, <<1590, 1585>>>>, <<64813, 3, <<1588, 1580>>>>, <<64814, 3, <<1588, 1581>>>>,
      <<64815, 3, <<1588, 1582>>>>, <<64816, 3, <<1588, 1605>>>>, <<64817, 3, <<1587, 1607>>>>,
      <<64818, 3, <<1588, 1607>>>>, <<64819, 3, <<1591, 1605>>>>, <<64820, 3, <<1587, 1580>>>>,
      <<64821, 3, <<1587, 1581>>>>, <<64822, 3, <<1587, 1582>>>>, <<64823, 3, <<1588, 1580>>>>,
      <<64824, 3, <<1588, 1581>>>>, <<64825, 3, <<1588, 1582>>>>, <<64826, 3, <<1591, 1605>>>>,
      <<64827, 3, <<1592, 1605>>>>, <<64828, 3, <<1575, 1611>>>>, <<64830, 1, <<>>>>,
      <<64848, 3, <<1578, 1580, 1605>>>>, <<64849, 3, <<1578, 1581, 1580>>>>,
      <<64851, 3, <<1578, 1581, 1605>>>>, <<64852, 3, <<1578, 1582, 1605>>>>,
      <<64853, 3, <<1578, 1605, 1580>>>>, <<64854, 3, <<1578, 1605, 1581>>>>,
      <<64855, 3, <<1578, 1605, 1582>>>>, <<64856, 3, <<1580, 1605, 1581>>>>,
      <<64858, 3, <<1581, 1605, 1610>>>>, <<64859, 3, <<1581, 1605, 1609>>>>,
      <<64860, 3, <<1587, 1581, 1580>>>>, <<64861, 3, <<1587, 1580, 1581>>>>,
      <<64862, 3, <<1587, 1580, 1609>>>>, <<64863, 3, <<1587, 1605, 1581>>>>,
      <<64865, 3, <<1587, 1605, 1580>>>>, <<64866, 3, <<1587, 1605, 1605>>>>,
      <<64868, 3, <<1589, 1581, 1581>>>>, <<64870, 3, <<1589, 1605, 1605>>>>,
      <<64871, 3, <<1588, 1581, 1605>>>>, <<64873, 3, <<1588, 1580, 1610>>>>,
      <<64874, 3, <<1588, 1605, 1582>>>>, <<64876, 3, <<1588, 1605, 1605>>>>,
      <<64878, 3, <<1590, 1581, 1609>>>>, <<64879, 3, <<1590, 1582, 1605>>>>,
      <<64881, 3, <<1591, 1605, 1581>>>>, <<64883, 3, <<1591, 1605, 1605>>>>,
      <<64884, 3, <<1591, 1605, 1610>>>>, <<64885, 3, <<1593, 1580, 1605>>>>,
      <<64886, 3, <<1593, 1605, 1605>>>>, <<64888, 3, <<1593, 1605, 1609>>>>,
      <<64889, 3, <<1594, 1605, 1605>>>>, <<64890, 3, <<1594, 1605, 1610>>>>,
      <<64891, 3, <<1594, 1605, 1609>>>>, <<64892, 3, <<1601, 1582, 1605>>>>,
      <<64894, 3, <<1602, 1605, 1581>>>>, <<64895, 3, <<1602, 1605, 1605>>>>,
      <<64896, 3, <<1604, 1581, 1605>>>>, <<64897, 3, <<1604, 1581, 1610>>>>,
      <<64898, 3, <<1604, 1581, 1609>>>>, <<64899, 3, <<1604, 1580, 1580>>>>,
      <<64901, 3, <<1604, 1582, 1605>>>>, <<64903, 3, <<1604, 1605, 1581>>>>,
      <<64905, 3, <<1605, 1581, 1580>>>>, <<64906, 3, <<1605, 1581, 1605>>>>,
      <<64907, 3, <<1605, 1581, 1610>>>>, <<64908, 3, <<1605, 1580, 1581>>>>,
      <<64909, 3, <<1605, 1580, 1605>>>>, <<64910, 3, <<1605, 1582, 1580>>>>,
      <<64911, 3, <<1605, 1582, 1605>>>>, <<64912, 2, <<>>>>,
      <<64914, 3, <<1605, 1580, 1582>>>>, <<64915, 3, <<1607, 1605, 1580>>>>,
      <<64916, 3, <<1607, 1605, 1605>>>>, <<64917, 3, <<1606, 1581, 1605>>>>,
      <<64918, 3, <<1606, 1581, 1609>>>>, <<64919, 3, <<1606, 1580, 1605>>>>,
      <<64921, 3, <<1606, 1580, 1609>>>>, <<64922, 3, <<1606, 1605, 1610>>>>,
      <<64923, 3, <<1606, 1605, 1609>>>>, <<64924, 3, <<1610, 1605, 1605>>>>,
      <<64926, 3, <<1576, 1582, 1610>>>>, <<64927, 3, <<1578, 1580, 1610>>>>,
      <<64928, 3, <<1578, 1580, 1609>>>>, <<64929, 3, <<1578, 1582, 1610>>>>,
      <<64930, 3, <<1578, 1582, 1609>>>>, <<64931, 3, <<1578, 1605, 1610>>>>,
      <<64932, 3, <<1578, 1605, 1609>>>>, <<64933, 3, <<1580, 1605, 1610>>>>,
      <<64934, 3, <<1580, 1581, 1609>>>>, <<64935, 3, <<1580, 1605, 1609>>>>,
      <<64936, 3, <<1587, 1582, 1609>>>>, <<64937, 3, <<1589, 1581, 1610>>>>,
      <<64938, 3, <<1588, 1581, 1610>>>>, <<64939, 3, <<1590, 1581, 1610>>>>,
      <<64940, 3, <<1604, 1580, 1610>>>>, <<64941, 3, <<1604, 1605, 1610>>>>,
      <<64942, 3, <<1610, 1581, 1610>>>>, <<64943, 3, <<1610, 1580, 1610>>>>,
      <<64944, 3, <<1610, 1605, 1610>>>>, <<64945, 3, <<1605, 1605, 1610>>>>,
      <<64946, 3, <<1602, 1605, 1610>>>>, <<64947, 3, <<1606, 1581, 1610>>>>,
      <<64948, 3, <<1602, 1605, 1581>>>>, <<64949, 3, <<1604, 1581, 1605>>>>,
      <<64950, 3, <<1593, 1605, 1610>>>>, <<64951, 3, <<1603, 1605, 1610>>>>,
      <<64952, 3, <<1606, 1580, 1581>>>>, <<64953, 3, <<1605, 1582, 1610>>>>,
      <<64954, 3, <<1604, 1580, 1605>>>>, <<64955, 3, <<1603, 1605, 1605>>>>,
      <<64956, 3, <<1604, 1580, 1605>>>>, <<64957, 3, <<1606, 1580, 1581>>>>,
      <<64958, 3, <<1580, 1581, 1610>>>>, <<64959, 3, <<1581, 1580, 1610>>>>,
      <<64960, 3, <<1605, 1580, 1610>>>>, <<64961, 3, <<1601, 1605, 1610>>>>,
      <<64962, 3, <<1576, 1581, 1610>>>>, <<64963, 3, <<1603, 1605, 1605>>>>,
      <<64964, 3, <<1593, 1580, 1605>>>>, <<64965, 3, <<1589, 1605, 1605>>>>,
      <<64966, 3, <<1587, 1582, 1610>>>>, <<64967, 3, <<1606, 1580, 1610>>>>,
      <<64968, 2, <<>>>>, <<64975, 1, <<>>>>, <<64976, 2, <<>>>>,
      <<65008, 3, <<1589, 1604, 1746>>>>, <<65009, 3, <<1602, 1604, 1746>>>>,
      <<65010, 3, <<1575, 1604, 1604, 1607>>>>, <<65011, 3, <<1575, 1603, 1576, 1585>>>>,
      <<65012, 3, <<1605, 1581, 1605, 1583>>>>, <<65013, 3, <<1589, 1604, 1593, 1605>>>>,
      <<65014, 3, <<1585, 1587, 1608, 1604>>>>, <<65015, 3, <<1593, 1604, 1610, 1607>>>>,
      <<65016, 3, <<1608, 1587, 1604, 1605>>>>, <<65017, 3, <<1589, 1604, 1609>>>>,
      <<65018, 3, <<1589, 1604, 1609, 32, 1575, 1604, 1604, 1607, 32, 1593, 1604, 1610, 1607, 32, 1608, 1587, 1604, 1605>>>>,
      <<65019, 3, <<1580, 1604, 32, 1580, 1604, 1575, 1604, 1607>>>>,
      <<65020, 3, <<1585, 1740, 1575, 1604>>>>, <<65021, 1, <<>>>>, <<65024, 0, <<>>>>,
      <<65040, 3, <<44>>>>, <<65041, 3, <<12289>>>>, <<65042, 2, <<>>>>, <<65043, 3, <<58>>>>,
      <<65044, 3, <<59>>>>, <<65045, 3, <<33>>>>, <<65046, 3, <<63>>>>, <<65047, 3, <<12310>>>>,
      <<65048, 3, <<12311>>>>, <<65049, 2, <<>>>>, <<65056, 1, <<>>>>, <<65072, 2, <<>>>>,
      <<65073, 3, <<8212>>>>, <<65074, 3, <<8211>>>>, <<65075, 3, <<95>>>>,
      <<65077, 3, <<40>>>>, <<65078, 3, <<41>>>>, <<65079, 3, <<123>>>>, <<65080, 3, <<125>>>>,
      <<65081, 3, <<12308>>>>, <<65082, 3, <<12309>>>>, <<65083, 3, <<12304>>>>,
      <<65084, 3, <<12305>>>>, <<65085, 3, <<12298>>>>, <<65086, 3, <<12299>>>>,
      <<65087, 3, <<12296>>>>, <<65088, 3, <<12297>>>>, <<65089, 3, <<12300>>>>,
      <<65090, 3, <<12301>>>>, <<65091, 3, <<12302>>>>, <<65092, 3, <<12303>>>>,
      <<65093, 1, <<>>>>, <<65095, 3, <<91>>>>, <<65096, 3, <<93>>>>, <<65097, 3, <<32, 773>>>>,
      <<65101, 3, <<95>>>>, <<65104, 3, <<44>>>>, <<65105, 3, <<12289>>>>, <<65106, 2, <<>>>>,
      <<65108, 3, <<59>>>>, <<65109, 3, <<58>>>>, <<65110, 3, <<63>>>>, <<65111, 3, <<33>>>>,
      <<65112, 3, <<8212>>>>, <<65113, 3, <<40>>>>, <<65114, 3, <<41>>>>, <<65115, 3, <<123>>>>,
      <<65116, 3, <<125>>>>, <<65117, 3, <<12308>>>>, <<65118, 3, <<12309>>>>,
      <<65119, 3, <<35>>>>, <<65120, 3, <<38>>>>, <<65121, 3, <<42>>>>, <<65122, 3, <<43>>>>,
      <<65123, 3, <<45>>>>, <<65124, 3, <<60>>>>, <<65125, 3, <<62>>>>, <<65126, 3, <<61>>>>,
      <<65127, 2, <<>>>>, <<65128, 3, <<92>>>>, <<65129, 3, <<36>>>>, <<65130, 3, <<37>>>>,
      <<65131, 3, <<64>>>>, <<65132, 2, <<>>>>, <<65136, 3, <<32, 1611>>>>,
      <<65137, 3, <<1600, 1611>>>>, <<65138, 3, <<32, 1612>>>>, <<65139, 1, <<>>>>,
      <<65140, 3, <<32, 1613>>>>, <<65141, 2, <<>>>>, <<65142, 3, <<32, 1614>>>>,
      <<65143, 3, <<1600, 1614>>>>, <<65144, 3, <<32, 1615>>>>, <<65145, 3, <<1600, 1615>>>>,
      <<65146, 3, <<32, 1616>>>>, <<65147, 3, <<1600, 1616>>>>, <<65148, 3, <<32, 1617>>>>,
      <<65149, 3, <<1600, 1617>>>>, <<65150, 3, <<32, 1618>>>>, <<65151, 3, <<1600, 1618>>>>,
      <<65152, 3, <<1569>>>>, <<65153, 3, <<1570>>>>, <<65155, 3, <<1571>>>>,
      <<65157, 3, <<1572>>>>, <<65159, 3, <<1573>>>>, <<65161, 3, <<1574>>>>,
      <<65165, 3, <<1575>>>>, <<65167, 3, <<1576>>>>, <<65171, 3, <<1577>>>>,
      <<65173, 3, <<1578>>>>, <<65177, 3, <<1579>>>>, <<65181, 3, <<1580>>>>,
      <<65185, 3, <<1581>>>>, <<65189, 3, <<1582>>>>, <<65193, 3, <<1583>>>>,
      <<65195, 3, <<1584>>>>, <<65197, 3, <<1585>>>>, <<65199, 3, <<1586>>>>,
      <<65201, 3, <<1587>>>>, <<65205, 3, <<1588>>>>, <<65209, 3, <<1589>>>>,
      <<65213, 3, <<1590>>>>, <<65217, 3, <<1591>>>>, <<65221, 3, <<1592>>>>,
      <<65225, 3, <<1593>>>>, <<65229, 3, <<1594>>>>, <<65233, 3, <<1601>>>>,
      <<65237, 3, <<1602>>>>, <<65241, 3, <<1603>>>>, <<65245, 3, <<1604>>>>,
      <<65249, 3, <<1605>>>>, <<65253, 3, <<1606>>>>, <<65257, 3, <<1607>>>>,
      <<65261, 3, <<1608>>>>, <<65263, 3, <<1609>>>>, <<65265, 3, <<1610>>>>,
      <<65269, 3, <<1604, 1570>>>>, <<65271, 3, <<1604, 1571>>>>, <<65273, 3, <<1604, 1573>>>>,
      <<65275, 3, <<1604, 1575>>>>, <<65277, 2, <<>>>>, <<65279, 0, <<>>>>, <<65280, 2, <<>>>>,
      <<65281, 3, <<33>>>>, <<65282, 3, <<34>>>>, <<65283, 3, <<35>>>>, <<65284, 3, <<36>>>>,
      <<65285, 3, <<37>>>>, <<65286, 3, <<38>>>>, <<65287, 3, <<39>>>>, <<65288, 3, <<40>>>>,
      <<65289, 3, <<41>>>>, <<65290, 3, <<42>>>>, <<65291, 3, <<43>>>>, <<65292, 3, <<44>>>>,
      <<65293, 3, <<45>>>>, <<65294, 3, <<46>>>>, <<65295, 3, <<47>>>>, <<65296, 3, <<48>>>>,
      <<65297, 3, <<49>>>>, <<65298, 3, <<50>>>>, <<65299, 3, <<51>>>>, <<65300, 3, <<52>>>>,
      <<65301, 3, <<53>>>>, <<65302, 3, <<54>>>>, <<65303, 3, <<55>>>>, <<65304, 3, <<56>>>>,
      <<65305, 3, <<57>>>>, <<65306, 3, <<58>>>>, <<65307, 3, <<59>>>>, <<65308, 3, <<60>>>>,
      <<65309, 3, <<61>>>>, <<65310, 3, <<62>>>>, <<65311, 3, <<63>>>>, <<65312, 3, <<64>>>>,
      <<65313, 3, <<97>>>>, <<65314, 3, <<98>>>>, <<65315, 3, <<99>>>>, <<65316, 3, <<100>>>>,
      <<65317, 3, <<101>>>>, <<65318, 3, <<102>>>>, <<65319, 3, <<103>>>>,
      <<65320, 3, <<104>>>>, <<65321, 3, <<105>>>>, <<65322, 3, <<106>>>>,
      <<65323, 3, <<107>>>>, <<65324, 3, <<108>>>>, <<65325, 3, <<109>>>>,
      <<65326, 3, <<110>>>>, <<65327, 3, <<111>>>>, <<65328, 3, <<112>>>>,
      <<65329, 3, <<113>>>>, <<65330, 3, <<114>>>>, <<65331, 3, <<115>>>>,
      <<65332, 3, <<116>>>>, <<65333, 3, <<117>>>>, <<65334, 3, <<118>>>>,
      <<65335, 3, <<119>>>>, <<65336, 3, <<120>>>>, <<65337, 3, <<121>>>>,
      <<65338, 3, <<122>>>>, <<65339, 3, <<91>>>>, <<65340, 3, <<92>>>>, <<65341, 3, <<93>>>>,
      <<65342, 3, <<94>>>>, <<65343, 3, <<95>>>>, <<65344, 3, <<96>>>>, <<65345, 3, <<97>>>>,
      <<65346, 3, <<98>>>>, <<65347, 3, <<99>>>>, <<65348, 3, <<100>>>>, <<65349, 3, <<101>>>>,
      <<65350, 3, <<102>>>>, <<65351, 3, <<103>>>>, <<65352, 3, <<104>>>>,
      <<65353, 3, <<105>>>>, <<65354, 3, <<106>>>>, <<65355, 3, <<107>>>>,
      <<65356, 3, <<108>>>>, <<65357, 3, <<109>>>>, <<65358, 3, <<110>>>>,
      <<65359, 3, <<111>>>>, <<65360, 3, <<112>>>>, <<65361, 3, <<113>>>>,
      <<65362, 3, <<114>>>>, <<65363, 3, <<115>>>>, <<65364, 3, <<116>>>>,
      <<65365, 3, <<117>>>>, <<65366, 3, <<118>>>>, <<65367, 3, <<119>>>>,
      <<65368, 3, <<120>>>>, <<65369, 3, <<121>>>>, <<65370, 3, <<122>>>>,
      <<65371, 3, <<123>>>>, <<65372, 3, <<124>>>>, <<65373, 3, <<125>>>>,
      <<65374, 3, <<126>>>>, <<65375, 3, <<10629>>>>, <<65376, 3, <<10630>>>>,
      <<65377, 3, <<46>>>>, <<65378, 3, <<12300>>>>, <<65379, 3, <<12301>>>>,
      <<65380, 3, <<12289>>>>, <<65381, 3, <<12539>>>>, <<65382, 3, <<12530>>>>,
      <<65383, 3, <<12449>>>>, <<65384, 3, <<12451>>>>, <<65385, 3, <<12453>>>>,
      <<65386, 3, <<12455>>>>, <<65387, 3, <<12457>>>>, <<65388, 3, <<12515>>>>,
      <<65389, 3, <<12517>>>>, <<65390, 3, <<12519>>>>, <<65391, 3, <<12483>>>>,
      <<65392, 3, <<12540>>>>, <<65393, 3, <<12450>>>>, <<65394, 3, <<12452>>>>,
      <<65395, 3, <<12454>>>>, <<65396, 3, <<12456>>>>, <<65397, 3, <<12458>>>>,
      <<65398, 3, <<12459>>>>, <<65399, 3, <<12461>>>>, <<65400, 3, <<12463>>>>,
      <<65401, 3, <<12465>>>>, <<65402, 3, <<12467>>>>, <<65403, 3, <<12469>>>>,
      <<65404, 3, <<12471>>>>, <<65405, 3, <<12473>>>>, <<65406, 3, <<12475>>>>,
      <<65407, 3, <<12477>>>>, <<65408, 3, <<12479>>>>, <<65409, 3, <<12481>>>>,
      <<65410, 3, <<12484>>>>, <<65411, 3, <<12486>>>>, <<65412, 3, <<12488>>>>,
      <<65413, 3, <<12490>>>>, <<65414, 3, <<12491>>>>, <<65415, 3, <<12492>>>>,
      <<65416, 3, <<12493>>>>, <<65417, 3, <<12494>>>>, <<65418, 3, <<12495>>>>,
      <<65419, 3, <<12498>>>>, <<65420, 3, <<12501>>>>, <<65421, 3, <<12504>>>>,
      <<65422, 3, <<12507>>>>, <<65423, 3, <<12510>>>>, <<65424, 3, <<12511>>>>,
      <<65425, 3, <<12512>>>>, <<65426, 3, <<12513>>>>, <<65427, 3, <<12514>>>>,
      <<65428, 3, <<12516>>>>, <<65429, 3, <<12518>>>>, <<65430, 3, <<12520>>>>,
      <<65431, 3, <<12521>>>>, <<65432, 3, <<12522>>>>, <<65433, 3, <<12523>>>>,
      <<65434, 3, <<12524>>>>, <<65435, 3, <<12525>>>>, <<65436, 3, <<12527>>>>,
      <<65437, 3, <<12531>>>>, <<65438, 3, <<12441>>>>, <<65439, 3, <<12442>>>>,
      <<65440, 2, <<>>>>, <<65441, 3, <<4352>>>>, <<65442, 3, <<4353>>>>,
      <<65443, 3, <<4522>>>>, <<65444, 3, <<4354>>>>, <<65445, 3, <<4524>>>>,
      <<65446, 3, <<4525>>>>, <<65447, 3, <<4355>>>>, <<65448, 3, <<4356>>>>,
      <<65449, 3, <<4357>>>>, <<65450, 3, <<4528>>>>, <<65451, 3, <<4529>>>>,
      <<65452, 3, <<4530>>>>, <<65453, 3, <<4531>>>>, <<65454, 3, <<4532>>>>,
      <<65455, 3, <<4533>>>>, <<65456, 3, <<4378>>>>, <<65457, 3, <<4358>>>>,
      <<65458, 3, <<4359>>>>, <<65459, 3, <<4360>>>>, <<65460, 3, <<4385>>>>,
      <<65461, 3, <<4361>>>>, <<65462, 3, <<4362>>>>, <<65463, 3, <<4363>>>>,
      <<65464, 3, <<4364>>>>, <<65465, 3, <<4365>>>>, <<65466, 3, <<4366>>>>,
      <<65467, 3, <<4367>>>>, <<65468, 3, <<4368>>>>, <<65469, 3, <<4369>>>>,
      <<65470, 3, <<4370>>>>, <<65471, 2, <<>>>>, <<65474, 3, <<4449>>>>,
      <<65475, 3, <<4450>>>>, <<65476, 3, <<4451>>>>, <<65477, 3, <<4452>>>>,
      <<65478, 3, <<4453>>>>, <<65479, 3, <<4454>>>>, <<65480, 2, <<>>>>,
      <<65482, 3, <<4455>>>>, <<65483, 3, <<4456>>>>, <<65484, 3, <<4457>>>>,
      <<65485, 3, <<4458>>>>, <<65486, 3, <<4459>>>>, <<65487, 3, <<4460>>>>,
      <<65488, 2, <<>>>>, <<65490, 3, <<4461>>>>, <<65491, 3, <<4462>>>>,
      <<65492, 3, <<4463>>>>, <<65493, 3, <<4464>>>>, <<65494, 3, <<4465>>>>,
      <<65495, 3, <<4466>>>>, <<65496, 2, <<>>>>, <<65498, 3, <<4467>>>>,
      <<65499, 3, <<4468>>>>, <<65500, 3, <<4469>>>>, <<65501, 2, <<>>>>, <<65504, 3, <<162>>>>,
      <<65505, 3, <<163>>>>, <<65506, 3, <<172>>>>, <<65507, 3, <<32, 772>>>>,
      <<65508, 3, <<166>>>>, <<65509, 3, <<165>>>>, <<65510, 3, <<8361>>>>, <<65511, 2, <<>>>>,
      <<65512, 3, <<9474>>>>, <<65513, 3, <<8592>>>>, <<65514, 3, <<8593>>>>,
      <<65515, 3, <<8594>>>>, <<65516, 3, <<8595>>>>, <<65517, 3, <<9632>>>>,
      <<65518, 3, <<9675>>>>, <<65519, 2, <<>>>>, <<65536, 1, <<>>>>, <<65548, 2, <<>>>>,
      <<65549, 1, <<>>>>, <<65575, 2, <<>>>>, <<65576, 1, <<>>>>, <<65595, 2, <<>>>>,
      <<65596, 1, <<>>>>, <<65598, 2, <<>>>>, <<65599, 1, <<>>>>, <<65614, 2, <<>>>>,
      <<65616, 1, <<>>>>, <<65630, 2, <<>>>>, <<65664, 1, <<>>>>, <<65787, 2, <<>>>>,
      <<65792, 1, <<>>>>, <<65795, 2, <<>>>>, <<65799, 1, <<>>>>, <<65844, 2, <<>>>>,
      <<65847, 1, <<>>>>, <<65935, 2, <<>>>>, <<65936, 1, <<>>>>, <<65949, 2, <<>>>>,
      <<65952, 1, <<>>>>, <<65953, 2, <<>>>>, <<66000, 1, <<>>>>, <<66046, 2, <<>>>>,
      <<66176, 1, <<>>>>, <<66205, 2, <<>>>>, <<66208, 1, <<>>>>, <<66257, 2, <<>>>>,
      <<66272, 1, <<>>>>, <<66300, 2, <<>>>>, <<66304, 1, <<>>>>, <<66340, 2, <<>>>>,
      <<66349, 1, <<>>>>, <<66379, 2, <<>>>>, <<66384, 1, <<>>>>, <<66427, 2, <<>>>>,
      <<66432, 1, <<>>>>, <<66462, 2, <<>>>>, <<66463, 1, <<>>>>, <<66500, 2, <<>>>>,
      <<66504, 1, <<>>>>, <<66518, 2, <<>>>>, <<66560, 3, <<66600>>>>, <<66561, 3, <<66601>>>>,
      <<66562, 3, <<66602>>>>, <<66563, 3, <<66603>>>>, <<66564, 3, <<66604>>>>,
      <<66565, 3, <<66605>>>>, <<66566, 3, <<66606>>>>, <<66567, 3, <<66607>>>>,
      <<66568, 3, <<66608>>>>, <<66569, 3, <<66609>>>>, <<66570, 3, <<66610>>>>,
      <<66571, 3, <<66611>>>>, <<66572, 3, <<66612>>>>, <<66573, 3, <<66613>>>>,
      <<66574, 3, <<66614>>>>, <<66575, 3, <<66615>>>>, <<66576, 3, <<66616>>>>,
      <<66577, 3, <<66617>>>>, <<66578, 3, <<66618>>>>, <<66579, 3, <<66619>>>>,
      <<66580, 3, <<66620>>>>, <<66581, 3, <<66621>>>>, <<66582, 3, <<66622>>>>,
      <<66583, 3, <<66623>>>>, <<66584, 3, <<66624>>>>, <<66585, 3, <<66625>>>>,
      <<66586, 3, <<66626>>>>, <<66587, 3, <<66627>>>>, <<66588, 3, <<66628>>>>,
      <<66589, 3, <<66629>>>>, <<66590, 3, <<66630>>>>, <<66591, 3, <<66631>>>>,
      <<66592, 3, <<66632>>>>, <<66593, 3, <<66633>>>>, <<66594, 3, <<66634>>>>,
      <<66595, 3, <<66635>>>>, <<66596, 3, <<66636>>>>, <<66597, 3, <<66637>>>>,
      <<66598, 3, <<66638>>>>, <<66599, 3, <<66639>>>>, <<66600, 1, <<>>>>, <<66718, 2, <<>>>>,
      <<66720, 1, <<>>>>, <<66730, 2, <<>>>>, <<66736, 3, <<66776>>>>, <<66737, 3, <<66777>>>>,
      <<66738, 3, <<66778>>>>, <<66739, 3, <<66779>>>>, <<66740, 3, <<66780>>>>,
      <<66741, 3, <<66781>>>>, <<66742, 3, <<66782>>>>, <<66743, 3, <<66783>>>>,
      <<66744, 3, <<66784>>>>, <<66745, 3, <<66785>>>>, <<66746, 3, <<66786>>>>,
      <<66747, 3, <<66787>>>>, <<66748, 3, <<66788>>>>, <<66749, 3, <<66789>>>>,
      <<66750, 3, <<66790>>>>, <<66751, 3, <<66791>>>>, <<66752, 3, <<66792>>>>,
      <<66753, 3, <<66793>>>>, <<66754, 3, <<66794>>>>, <<66755, 3, <<66795>>>>,
      <<66756, 3, <<66796>>>>, <<66757, 3, <<66797>>>>, <<66758, 3, <<66798>>>>,
      <<66759, 3, <<66799>>>>, <<66760, 3, <<66800>>>>, <<66761, 3, <<66801>>>>,
      <<66762, 3, <<66802>>>>, <<66763, 3, <<66803>>>>, <<66764, 3, <<66804>>>>,
      <<66765, 3, <<66805>>>>, <<66766, 3, <<66806>>>>, <<66767, 3, <<66807>>>>,
      <<66768, 3, <<66808>>>>, <<66769, 3, <<66809>>>>, <<66770, 3, <<66810>>>>,
      <<66771, 3, <<66811>>>>, <<66772, 2, <<>>>>, <<66776, 1, <<>>>>, <<66812, 2, <<>>>>,
      <<66816, 1, <<>>>>, <<66856, 2, <<>>>>, <<66864, 1, <<>>>>, <<66916, 2, <<>>>>,
      <<66927, 1, <<>>>>, <<66928, 3, <<66967>>>>, <<66929, 3, <<66968>>>>,
      <<66930, 3, <<66969>>>>, <<66931, 3, <<66970>>>>, <<66932, 3, <<66971>>>>,
      <<66933, 3, <<66972>>>>, <<66934, 3, <<66973>>>>, <<66935, 3, <<66974>>>>,
      <<66936, 3, <<66975>>>>, <<66937, 3, <<66976>>>>, <<66938, 3, <<66977>>>>,
      <<66939, 2, <<>>>>, <<66940, 3, <<66979>>>>, <<66941, 3, <<66980>>>>,
      <<66942, 3, <<66981>>>>, <<66943, 3, <<66982>>>>, <<66944, 3, <<66983>>>>,
      <<66945, 3, <<66984>>>>, <<66946, 3, <<66985>>>>, <<66947, 3, <<66986>>>>,
      <<66948, 3, <<66987>>>>, <<66949, 3, <<66988>>>>, <<66950, 3, <<66989>>>>,
      <<66951, 3, <<66990>>>>, <<66952, 3, <<66991>>>>, <<66953, 3, <<66992>>>>,
      <<66954, 3, <<66993>>>>, <<66955, 2, <<>>>>, <<66956, 3, <<66995>>>>,
      <<66957, 3, <<66996>>>>, <<66958, 3, <<66997>>>>, <<66959, 3, <<66998>>>>,
      <<66960, 3, <<66999>>>>, <<66961, 3, <<67000>>>>, <<66962, 3, <<67001>>>>,
      <<66963, 2, <<>>>>, <<66964, 3, <<67003>>>>, <<66965, 3, <<67004>>>>, <<66966, 2, <<>>>>,
      <<66967, 1, <<>>>>, <<66978, 2, <<>>>>, <<66979, 1, <<>>>>, <<66994, 2, <<>>>>,
      <<66995, 1, <<>>>>, <<67002, 2, <<>>>>, <<67003, 1, <<>>>>, <<67005, 2, <<>>>>,
      <<67072, 1, <<>>>>, <<67383, 2, <<>>>>, <<67392, 1, <<>>>>, <<67414, 2, <<>>>>,
      <<67424, 1, <<>>>>, <<67432, 2, <<>>>>, <<67456, 1, <<>>>>, <<67457, 3, <<720>>>>,
      <<67458, 3, <<721>>>>, <<67459, 3, <<230>>>>, <<67460, 3, <<665>>>>,
      <<67461, 3, <<595>>>>, <<67462, 2, <<>>>>, <<67463, 3, <<675>>>>, <<67464, 3, <<43878>>>>,
      <<67465, 3, <<677>>>>, <<67466, 3, <<676>>>>, <<67467, 3, <<598>>>>,
      <<67468, 3, <<599>>>>, <<67469, 3, <<7569>>>>, <<67470, 3, <<600>>>>,
      <<67471, 3, <<606>>>>, <<67472, 3, <<681>>>>, <<67473, 3, <<612>>>>,
      <<67474, 3, <<610>>>>, <<67475, 3, <<608>>>>, <<67476, 3, <<667>>>>,
      <<67477, 3, <<295>>>>, <<67478, 3, <<668>>>>, <<67479, 3, <<615>>>>,
      <<67480, 3, <<644>>>>, <<67481, 3, <<682>>>>, <<67482, 3, <<683>>>>,
      <<67483, 3, <<620>>>>, <<67484, 3, <<122628>>>>, <<67485, 3, <<42894>>>>,
      <<67486, 3, <<622>>>>, <<67487, 3, <<122629>>>>, <<67488, 3, <<654>>>>,
      <<67489, 3, <<122630>>>>, <<67490, 3, <<248>>>>, <<67491, 3, <<630>>>>,
      <<67492, 3, <<631>>>>, <<67493, 3, <<113>>>>, <<67494, 3, <<634>>>>,
      <<67495, 3, <<122632>>>>, <<67496, 3, <<637>>>>, <<67497, 3, <<638>>>>,
      <<67498, 3, <<640>>>>, <<67499, 3, <<680>>>>, <<67500, 3, <<678>>>>,
      <<67501, 3, <<43879>>>>, <<67502, 3, <<679>>>>, <<67503, 3, <<648>>>>,
      <<67504, 3, <<11377>>>>, <<67505, 2, <<>>>>, <<67506, 3, <<655>>>>, <<67507, 3, <<673>>>>,
      <<67508, 3, <<674>>>>, <<67509, 3, <<664>>>>, <<67510, 3, <<448>>>>,
      <<67511, 3, <<449>>>>, <<67512, 3, <<450>>>>, <<67513, 3, <<122634>>>>,
      <<67514, 3, <<122654>>>>, <<67515, 2, <<>>>>, <<67584, 1, <<>>>>, <<67590, 2, <<>>>>,
      <<67592, 1, <<>>>>, <<67593, 2, <<>>>>, <<67594, 1, <<>>>>, <<67638, 2, <<>>>>,
      <<67639, 1, <<>>>>, <<67641, 2, <<>>>>, <<67644, 1, <<>>>>, <<67645, 2, <<>>>>,
      <<67647, 1, <<>>>>, <<67670, 2, <<>>>>, <<67671, 1, <<>>>>, <<67743, 2, <<>>>>,
      <<67751, 1, <<>>>>, <<67760, 2, <<>>>>, <<67808, 1, <<>>>>, <<67827, 2, <<>>>>,
      <<67828, 1, <<>>>>, <<67830, 2, <<>>>>, <<67835, 1, <<>>>>, <<67868, 2, <<>>>>,
      <<67871, 1, <<>>>>, <<67898, 2, <<>>>>, <<67903, 1, <<>>>>, <<67904, 2, <<>>>>,
      <<67968, 1, <<>>>>, <<68024, 2, <<>>>>, <<68028, 1, <<>>>>, <<68048, 2, <<>>>>,
      <<68050, 1, <<>>>>, <<68100, 2, <<>>>>, <<68101, 1, <<>>>>, <<68103, 2, <<>>>>,
      <<68108, 1, <<>>>>, <<68116, 2, <<>>>>, <<68117, 1, <<>>>>, <<68120, 2, <<>>>>,
      <<68121, 1, <<>>>>, <<68150, 2, <<>>>>, <<68152, 1, <<>>>>, <<68155, 2, <<>>>>,
      <<68159, 1, <<>>>>, <<68169, 2, <<>>>>, <<68176, 1, <<>>>>, <<68185, 2, <<>>>>,
      <<68192, 1, <<>>>>, <<68256, 2, <<>>>>, <<68288, 1, <<>>>>, <<68327, 2, <<>>>>,
      <<68331, 1, <<>>>>, <<68343, 2, <<>>>>, <<68352, 1, <<>>>>, <<68406, 2, <<>>>>,
      <<68409, 1, <<>>>>, <<68438, 2, <<>>>>, <<68440, 1, <<>>>>, <<68467, 2, <<>>>>,
      <<68472, 1, <<>>>>, <<68498, 2, <<>>>>, <<68505, 1, <<>>>>, <<68509, 2, <<>>>>,
      <<68521, 1, <<>>>>, <<68528, 2, <<>>>>, <<68608, 1, <<>>>>, <<68681, 2, <<>>>>,
      <<68736, 3, <<68800>>>>, <<68737, 3, <<68801>>>>, <<68738, 3, <<68802>>>>,
      <<68739, 3, <<68803>>>>, <<68740, 3, <<68804>>>>, <<68741, 3, <<68805>>>>,
      <<68742, 3, <<68806>>>>, <<68743, 3, <<68807>>>>, <<68744, 3, <<68808>>>>,
      <<68745, 3, <<68809>>>>, <<68746, 3, <<68810>>>>, <<68747, 3, <<68811>>>>,
      <<68748, 3, <<68812>>>>, <<68749, 3, <<68813>>>>, <<68750, 3, <<68814>>>>,
      <<68751, 3, <<68815>>>>, <<68752, 3, <<68816>>>>, <<68753, 3, <<68817>>>>,
      <<68754, 3, <<68818>>>>, <<68755, 3, <<68819>>>>, <<68756, 3, <<68820>>>>,
      <<68757, 3, <<68821>>>>, <<68758, 3, <<68822>>>>, <<68759, 3, <<68823>>>>,
      <<68760, 3, <<68824>>>>, <<68761, 3, <<68825>>>>, <<68762, 3, <<68826>>>>,
      <<68763, 3, <<68827>>>>, <<68764, 3, <<68828>>>>, <<68765, 3, <<68829>>>>,
      <<68766, 3, <<68830>>>>, <<68767, 3, <<68831>>>>, <<68768, 3, <<68832>>>>,
      <<68769, 3, <<68833>>>>, <<68770, 3, <<68834>>>>, <<68771, 3, <<68835>>>>,
      <<68772, 3, <<68836>>>>, <<68773, 3, <<68837>>>>, <<68774, 3, <<68838>>>>,
      <<68775, 3, <<68839>>>>, <<68776, 3, <<68840>>>>, <<68777, 3, <<68841>>>>,
      <<68778, 3, <<68842>>>>, <<68779, 3, <<68843>>>>, <<68780, 3, <<68844>>>>,
      <<68781, 3, <<68845>>>>, <<68782, 3, <<68846>>>>, <<68783, 3, <<68847>>>>,
      <<68784, 3, <<68848>>>>, <<68785, 3, <<68849>>>>, <<68786, 3, <<68850>>>>,
      <<68787, 2, <<>>>>, <<68800, 1, <<>>>>, <<68851, 2, <<>>>>, <<68858, 1, <<>>>>,
      <<68904, 2, <<>>>>, <<68912, 1, <<>>>>, <<68922, 2, <<>>>>, <<69216, 1, <<>>>>,
      <<69247, 2, <<>>>>, <<69248, 1, <<>>>>, <<69290, 2, <<>>>>, <<69291, 1, <<>>>>,
      <<69294, 2, <<>>>>, <<69296, 1, <<>>>>, <<69298, 2, <<>>>>, <<69373, 1, <<>>>>,
      <<69416, 2, <<>>>>, <<69424, 1, <<>>>>, <<69466, 2, <<>>>>, <<69488, 1, <<>>>>,
      <<69514, 2, <<>>>>, <<69552, 1, <<>>>>, <<69580, 2, <<>>>>, <<69600, 1, <<>>>>,
      <<69623, 2, <<>>>>, <<69632, 1, <<>>>>, <<69710, 2, <<>>>>, <<69714, 1, <<>>>>,
      <<69750, 2, <<>>>>, <<69759, 1, <<>>>>, <<69821, 2, <<>>>>, <<69822, 1, <<>>>>,
      <<69827, 2, <<>>>>, <<69840, 1, <<>>>>, <<69865, 2, <<>>>>, <<69872, 1, <<>>>>,
      <<69882, 2, <<>>>>, <<69888, 1, <<>>>>, <<69941, 2, <<>>>>, <<69942, 1, <<>>>>,
      <<69960, 2, <<>>>>, <<69968, 1, <<>>>>, <<70007, 2, <<>>>>, <<70016, 1, <<>>>>,
      <<70112, 2, <<>>>>, <<70113, 1, <<>>>>, <<70133, 2, <<>>>>, <<70144, 1, <<>>>>,
      <<70162, 2, <<>>>>, <<70163, 1, <<>>>>, <<70210, 2, <<>>>>, <<70272, 1, <<>>>>,
      <<70279, 2, <<>>>>, <<70280, 1, <<>>>>, <<70281, 2, <<>>>>, <<70282, 1, <<>>>>,
      <<70286, 2, <<>>>>, <<70287, 1, <<>>>>, <<70302, 2, <<>>>>, <<70303, 1, <<>>>>,
      <<70314, 2, <<>>>>, <<70320, 1, <<>>>>, <<70379, 2, <<>>>>, <<70384, 1, <<>>>>,
      <<70394, 2, <<>>>>, <<70400, 1, <<>>>>, <<70404, 2, <<>>>>, <<70405, 1, <<>>>>,
      <<70413, 2, <<>>>>, <<70415, 1, <<>>>>, <<70417, 2, <<>>>>, <<70419, 1, <<>>>>,
      <<70441, 2, <<>>>>, <<70442, 1, <<>>>>, <<70449, 2, <<>>>>, <<70450, 1, <<>>>>,
      <<70452, 2, <<>>>>, <<70453, 1, <<>>>>, <<70458, 2, <<>>>>, <<70459, 1, <<>>>>,
      <<70469, 2, <<>>>>, <<70471, 1, <<>>>>, <<70473, 2, <<>>>>, <<70475, 1, <<>>>>,
      <<70478, 2, <<>>>>, <<70480, 1, <<>>>>, <<70481, 2, <<>>>>, <<70487, 1, <<>>>>,
      <<70488, 2, <<>>>>, <<70493, 1, <<>>>>, <<70500, 2, <<>>>>, <<70502, 1, <<>>>>,
      <<70509, 2, <<>>>>, <<70512, 1, <<>>>>, <<70517, 2, <<>>>>, <<70656, 1, <<>>>>,
      <<70748, 2, <<>>>>, <<70749, 1, <<>>>>, <<70754, 2, <<>>>>, <<70784, 1, <<>>>>,
      <<70856, 2, <<>>>>, <<70864, 1, <<>>>>, <<70874, 2, <<>>>>, <<71040, 1, <<>>>>,
      <<71094, 2, <<>>>>, <<71096, 1, <<>>>>, <<71134, 2, <<>>>>, <<71168, 1, <<>>>>,
      <<71237, 2, <<>>>>, <<71248, 1, <<>>>>, <<71258, 2, <<>>>>, <<71264, 1, <<>>>>,
      <<71277, 2, <<>>>>, <<71296, 1, <<>>>>, <<71354, 2, <<>>>>, <<71360, 1, <<>>>>,
      <<71370, 2, <<>>>>, <<71424, 1, <<>>>>, <<71451, 2, <<>>>>, <<71453, 1, <<>>>>,
      <<71468, 2, <<>>>>, <<71472, 1, <<>>>>, <<71495, 2, <<>>>>, <<71680, 1, <<>>>>,
      <<71740, 2, <<>>>>, <<71840, 3, <<71872>>>>, <<71841, 3, <<71873>>>>,
      <<71842, 3, <<71874>>>>, <<71843, 3, <<71875>>>>, <<71844, 3, <<71876>>>>,
      <<71845, 3, <<71877>>>>, <<71846, 3, <<71878>>>>, <<71847, 3, <<71879>>>>,
      <<71848, 3, <<71880>>>>, <<71849, 3, <<71881>>>>, <<71850, 3, <<71882>>>>,
      <<71851, 3, <<71883>>>>, <<71852, 3, <<71884>>>>, <<71853, 3, <<71885>>>>,
      <<71854, 3, <<71886>>>>, <<71855, 3, <<71887>>>>, <<71856, 3, <<71888>>>>,
      <<71857, 3, <<71889>>>>, <<71858, 3, <<71890>>>>, <<71859, 3, <<71891>>>>,
      <<71860, 3, <<71892>>>>, <<71861, 3, <<71893>>>>, <<71862, 3, <<71894>>>>,
      <<71863, 3, <<71895>>>>, <<71864, 3, <<71896>>>>, <<71865, 3, <<71897>>>>,
      <<71866, 3, <<71898>>>>, <<71867, 3, <<71899>>>>, <<71868, 3, <<71900>>>>,
      <<71869, 3, <<71901>>>>, <<71870, 3, <<71902>>>>, <<71871, 3, <<71903>>>>,
      <<71872, 1, <<>>>>, <<71923, 2, <<>>>>, <<71935, 1, <<>>>>, <<71943, 2, <<>>>>,
      <<71945, 1, <<>>>>, <<71946, 2, <<>>>>, <<71948, 1, <<>>>>, <<71956, 2, <<>>>>,
      <<71957, 1, <<>>>>, <<71959, 2, <<>>>>, <<71960, 1, <<>>>>, <<71990, 2, <<>>>>,
      <<71991, 1, <<>>>>, <<71993, 2, <<>>>>, <<71995, 1, <<>>>>, <<72007, 2, <<>>>>,
      <<72016, 1, <<>>>>, <<72026, 2, <<>>>>, <<72096, 1, <<>>>>, <<72104, 2, <<>>>>,
      <<72106, 1, <<>>>>, <<72152, 2, <<>>>>, <<72154, 1, <<>>>>, <<72165, 2, <<>>>>,
      <<72192, 1, <<>>>>, <<72264, 2, <<>>>>, <<72272, 1, <<>>>>, <<72355, 2, <<>>>>,
      <<72368, 1, <<>>>>, <<72441, 2, <<>>>>, <<72448, 1, <<>>>>, <<72458, 2, <<>>>>,
      <<72704, 1, <<>>>>, <<72713, 2, <<>>>>, <<72714, 1, <<>>>>, <<72759, 2, <<>>>>,
      <<72760, 1, <<>>>>, <<72774, 2, <<>>>>, <<72784, 1, <<>>>>, <<72813, 2, <<>>>>,
      <<72816, 1, <<>>>>, <<72848, 2, <<>>>>, <<72850, 1, <<>>>>, <<72872, 2, <<>>>>,
      <<72873, 1, <<>>>>, <<72887, 2, <<>>>>, <<72960, 1, <<>>>>, <<72967, 2, <<>>>>,
      <<72968, 1, <<>>>>, <<72970, 2, <<>>>>, <<72971, 1, <<>>>>, <<73015, 2, <<>>>>,
      <<73018, 1, <<>>>>, <<73019, 2, <<>>>>, <<73020, 1, <<>>>>, <<73022, 2, <<>>>>,
      <<73023, 1, <<>>>>, <<73032, 2, <<>>>>, <<73040, 1, <<>>>>, <<73050, 2, <<>>>>,
      <<73056, 1, <<>>>>, <<73062, 2, <<>>>>, <<73063, 1, <<>>>>, <<73065, 2, <<>>>>,
      <<73066, 1, <<>>>>, <<73103, 2, <<>>>>, <<73104, 1, <<>>>>, <<73106, 2, <<>>>>,
      <<73107, 1, <<>>>>, <<73113, 2, <<>>>>, <<73120, 1, <<>>>>, <<73130, 2, <<>>>>,
      <<73440, 1, <<>>>>, <<73465, 2, <<>>>>, <<73472, 1, <<>>>>, <<73489, 2, <<>>>>,
      <<73490, 1, <<>>>>, <<73531, 2, <<>>>>, <<73534, 1, <<>>>>, <<73562, 2, <<>>>>,
      <<73648, 1, <<>>>>, <<73649, 2, <<>>>>, <<73664, 1, <<>>>>, <<73714, 2, <<>>>>,
      <<73727, 1, <<>>>>, <<74650, 2, <<>>>>, <<74752, 1, <<>>>>, <<74863, 2, <<>>>>,
      <<74864, 1, <<>>>>, <<74869, 2, <<>>>>, <<74880, 1, <<>>>>, <<75076, 2, <<>>>>,
      <<77712, 1, <<>>>>, <<77811, 2, <<>>>>, <<77824, 1, <<>>>>, <<78896, 2, <<>>>>,
      <<78912, 1, <<>>>>, <<78934, 2, <<>>>>, <<82944, 1, <<>>>>, <<83527, 2, <<>>>>,
      <<92160, 1, <<>>>>, <<92729, 2, <<>>>>, <<92736, 1, <<>>>>, <<92767, 2, <<>>>>,
      <<92768, 1, <<>>>>, <<92778, 2, <<>>>>, <<92782, 1, <<>>>>, <<92863, 2, <<>>>>,
      <<92864, 1, <<>>>>, <<92874, 2, <<>>>>, <<92880, 1, <<>>>>, <<92910, 2, <<>>>>,
      <<92912, 1, <<>>>>, <<92918, 2, <<>>>>, <<92928, 1, <<>>>>, <<92998, 2, <<>>>>,
      <<93008, 1, <<>>>>, <<93018, 2, <<>>>>, <<93019, 1, <<>>>>, <<93026, 2, <<>>>>,
      <<93027, 1, <<>>>>, <<93048, 2, <<>>>>, <<93053, 1, <<>>>>, <<93072, 2, <<>>>>,
      <<93760, 3, <<93792>>>>, <<93761, 3, <<93793>>>>, <<93762, 3, <<93794>>>>,
      <<93763, 3, <<93795>>>>, <<93764, 3, <<93796>>>>, <<93765, 3, <<93797>>>>,
      <<93766, 3, <<93798>>>>, <<93767, 3, <<93799>>>>, <<93768, 3, <<93800>>>>,
      <<93769, 3, <<93801>>>>, <<93770, 3, <<93802>>>>, <<93771, 3, <<93803>>>>,
      <<93772, 3, <<93804>>>>, <<93773, 3, <<93805>>>>, <<93774, 3, <<93806>>>>,
      <<93775, 3, <<93807>>>>, <<93776, 3, <<93808>>>>, <<93777, 3, <<93809>>>>,
      <<93778, 3, <<93810>>>>, <<93779, 3, <<93811>>>>, <<93780, 3, <<93812>>>>,
      <<93781, 3, <<93813>>>>, <<93782, 3, <<93814>>>>, <<93783, 3, <<93815>>>>,
      <<93784, 3, <<93816>>>>, <<93785, 3, <<93817>>>>, <<93786, 3, <<93818>>>>,
      <<93787, 3, <<93819>>>>, <<93788, 3, <<93820>>>>, <<93789, 3, <<93821>>>>,
      <<93790, 3, <<93822>>>>, <<93791, 3, <<93823>>>>, <<93792, 1, <<>>>>, <<93851, 2, <<>>>>,
      <<93952, 1, <<>>>>, <<94027, 2, <<>>>>, <<94031, 1, <<>>>>, <<94088, 2, <<>>>>,
      <<94095, 1, <<>>>>, <<94112, 2, <<>>>>, <<94176, 1, <<>>>>, <<94181, 2, <<>>>>,
      <<94192, 1, <<>>>>, <<94194, 2, <<>>>>, <<94208, 1, <<>>>>, <<100344, 2, <<>>>>,
      <<100352, 1, <<>>>>, <<101590, 2, <<>>>>, <<101632, 1, <<>>>>, <<101641, 2, <<>>>>,
      <<110576, 1, <<>>>>, <<110580, 2, <<>>>>, <<110581, 1, <<>>>>, <<110588, 2, <<>>>>,
      <<110589, 1, <<>>>>, <<110591, 2, <<>>>>, <<110592, 1, <<>>>>, <<110883, 2, <<>>>>,
      <<110898, 1, <<>>>>, <<110899, 2, <<>>>>, <<110928, 1, <<>>>>, <<110931, 2, <<>>>>,
      <<110933, 1, <<>>>>, <<110934, 2, <<>>>>, <<110948, 1, <<>>>>, <<110952, 2, <<>>>>,
      <<110960, 1, <<>>>>, <<111356, 2, <<>>>>, <<113664, 1, <<>>>>, <<113771, 2, <<>>>>,
      <<113776, 1, <<>>>>, <<113789, 2, <<>>>>, <<113792, 1, <<>>>>, <<113801, 2, <<>>>>,
      <<113808, 1, <<>>>>, <<113818, 2, <<>>>>, <<113820, 1, <<>>>>, <<113824, 0, <<>>>>,
      <<113828, 2, <<>>>>, <<118528, 1, <<>>>>, <<118574, 2, <<>>>>, <<118576, 1, <<>>>>,
      <<118599, 2, <<>>>>, <<118608, 1, <<>>>>, <<118724, 2, <<>>>>, <<118784, 1, <<>>>>,
      <<119030, 2, <<>>>>, <<119040, 1, <<>>>>, <<119079, 2, <<>>>>, <<119081, 1, <<>>>>,
      <<119134, 3, <<119127, 119141>>>>, <<119135, 3, <<119128, 119141>>>>,
      <<119136, 3, <<119128, 119141, 119150>>>>, <<119137, 3, <<119128, 119141, 119151>>>>,
      <<119138, 3, <<119128, 119141, 119152>>>>, <<119139, 3, <<119128, 119141, 119153>>>>,
      <<119140, 3, <<119128, 119141, 119154>>>>, <<119141, 1, <<>>>>, <<119155, 2, <<>>>>,
      <<119163, 1, <<>>>>, <<119227, 3, <<119225, 119141>>>>, <<119228, 3, <<119226, 119141>>>>,
      <<119229, 3, <<119225, 119141, 119150>>>>, <<119230, 3, <<119226, 119141, 119150>>>>,
      <<119231, 3, <<119225, 119141, 119151>>>>, <<119232, 3, <<119226, 119141, 119151>>>>,
      <<119233, 1, <<>>>>, <<119275, 2, <<>>>>, <<119296, 1, <<>>>>, <<119366, 2, <<>>>>,
      <<119488, 1, <<>>>>, <<119508, 2, <<>>>>, <<119520, 1, <<>>>>, <<119540, 2, <<>>>>,
      <<119552, 1, <<>>>>, <<119639, 2, <<>>>>, <<119648, 1, <<>>>>, <<119673, 2, <<>>>>,
      <<119808, 3, <<97>>>>, <<119809, 3, <<98>>>>, <<119810, 3, <<99>>>>,
      <<119811, 3, <<100>>>>, <<119812, 3, <<101>>>>, <<119813, 3, <<102>>>>,
      <<119814, 3, <<103>>>>, <<119815, 3, <<104>>>>, <<119816, 3, <<105>>>>,
      <<119817, 3, <<106>>>>, <<119818, 3, <<107>>>>, <<119819, 3, <<108>>>>,
      <<119820, 3, <<109>>>>, <<119821, 3, <<110>>>>, <<119822, 3, <<111>>>>,
      <<119823, 3, <<112>>>>, <<119824, 3, <<113>>>>, <<119825, 3, <<114>>>>,
      <<119826, 3, <<115>>>>, <<119827, 3, <<116>>>>, <<119828, 3, <<117>>>>,
      <<119829, 3, <<118>>>>, <<119830, 3, <<119>>>>, <<119831, 3, <<120>>>>,
      <<119832, 3, <<121>>>>, <<119833, 3, <<122>>>>, <<119834, 3, <<97>>>>,
      <<119835, 3, <<98>>>>, <<119836, 3, <<99>>>>, <<119837, 3, <<100>>>>,
      <<119838, 3, <<101>>>>, <<119839, 3, <<102>>>>, <<119840, 3, <<103>>>>,
      <<119841, 3, <<104>>>>, <<119842, 3, <<105>>>>, <<119843, 3, <<106>>>>,
      <<119844, 3, <<107>>>>, <<119845, 3, <<108>>>>, <<119846, 3, <<109>>>>,
      <<119847, 3, <<110>>>>, <<119848, 3, <<111>>>>, <<119849, 3, <<112>>>>,
      <<119850, 3, <<113>>>>, <<119851, 3, <<114>>>>, <<119852, 3, <<115>>>>,
      <<119853, 3, <<116>>>>, <<119854, 3, <<117>>>>, <<119855, 3, <<118>>>>,
      <<119856, 3, <<119>>>>, <<119857, 3, <<120>>>>, <<119858, 3, <<121>>>>,
      <<119859, 3, <<122>>>>, <<119860, 3, <<97>>>>, <<119861, 3, <<98>>>>,
      <<119862, 3, <<99>>>>, <<119863, 3, <<100>>>>, <<119864, 3, <<101>>>>,
      <<119865, 3, <<102>>>>, <<119866, 3, <<103>>>>, <<119867, 3, <<104>>>>,
      <<119868, 3, <<105>>>>, <<119869, 3, <<106>>>>, <<119870, 3, <<107>>>>,
      <<119871, 3, <<108>>>>, <<119872, 3, <<109>>>>, <<119873, 3, <<110>>>>,
      <<119874, 3, <<111>>>>, <<119875, 3, <<112>>>>, <<119876, 3, <<113>>>>,
      <<119877, 3, <<114>>>>, <<119878, 3, <<115>>>>, <<119879, 3, <<116>>>>,
      <<119880, 3, <<117>>>>, <<119881, 3, <<118>>>>, <<119882, 3, <<119>>>>,
      <<119883, 3, <<120>>>>, <<119884, 3, <<121>>>>, <<119885, 3, <<122>>>>,
      <<119886, 3, <<97>>>>, <<119887, 3, <<98>>>>, <<119888, 3, <<99>>>>,
      <<119889, 3, <<100>>>>, <<119890, 3, <<101>>>>, <<119891, 3, <<102>>>>,
      <<119892, 3, <<103>>>>, <<119893, 2, <<>>>>, <<119894, 3, <<105>>>>,
      <<119895, 3, <<106>>>>, <<119896, 3, <<107>>>>, <<119897, 3, <<108>>>>,
      <<119898, 3, <<109>>>>, <<119899, 3, <<110>>>>, <<119900, 3, <<111>>>>,
      <<119901, 3, <<112>>>>, <<119902, 3, <<113>>>>, <<119903, 3, <<114>>>>,
      <<119904, 3, <<115>>>>, <<119905, 3, <<116>>>>, <<119906, 3, <<117>>>>,
      <<119907, 3, <<118>>>>, <<119908, 3, <<119>>>>, <<119909, 3, <<120>>>>,
      <<119910, 3, <<121>>>>, <<119911, 3, <<122>>>>, <<119912, 3, <<97>>>>,
      <<119913, 3, <<98>>>>, <<119914, 3, <<99>>>>, <<119915, 3, <<100>>>>,
      <<119916, 3, <<101>>>>, <<119917, 3, <<102>>>>, <<119918, 3, <<103>>>>,
      <<119919, 3, <<104>>>>, <<119920, 3, <<105>>>>, <<119921, 3, <<106>>>>,
      <<119922, 3, <<107>>>>, <<119923, 3, <<108>>>>, <<119924, 3, <<109>>>>,
      <<119925, 3, <<110>>>>, <<119926, 3, <<111>>>>, <<119927, 3, <<112>>>>,
      <<119928, 3, <<113>>>>, <<119929, 3, <<114>>>>, <<119930, 3, <<115>>>>,
      <<119931, 3, <<116>>>>, <<119932, 3, <<117>>>>, <<119933, 3, <<118>>>>,
      <<119934, 3, <<119>>>>, <<119935, 3, <<120>>>>, <<119936, 3, <<121>>>>,
      <<119937, 3, <<122>>>>, <<119938, 3, <<97>>>>, <<119939, 3, <<98>>>>,
      <<119940, 3, <<99>>>>, <<119941, 3, <<100>>>>, <<119942, 3, <<101>>>>,
      <<119943, 3, <<102>>>>, <<119944, 3, <<103>>>>, <<119945, 3, <<104>>>>,
      <<119946, 3, <<105>>>>, <<119947, 3, <<106>>>>, <<119948, 3, <<107>>>>,
      <<119949, 3, <<108>>>>, <<119950, 3, <<109>>>>, <<119951, 3, <<110>>>>,
      <<119952, 3, <<111>>>>, <<119953, 3, <<112>>>>, <<119954, 3, <<113>>>>,
      <<119955, 3, <<114>>>>, <<119956, 3, <<115>>>>, <<119957, 3, <<116>>>>,
      <<119958, 3, <<117>>>>, <<119959, 3, <<118>>>>, <<119960, 3, <<119>>>>,
      <<119961, 3, <<120>>>>, <<119962, 3, <<121>>>>, <<119963, 3, <<122>>>>,
      <<119964, 3, <<97>>>>, <<119965, 2, <<>>>>, <<119966, 3, <<99>>>>, <<119967, 3, <<100>>>>,
      <<119968, 2, <<>>>>, <<119970, 3, <<103>>>>, <<119971, 2, <<>>>>, <<119973, 3, <<106>>>>,
      <<119974, 3, <<107>>>>, <<119975, 2, <<>>>>, <<119977, 3, <<110>>>>,
      <<119978, 3, <<111>>>>, <<119979, 3, <<112>>>>, <<119980, 3, <<113>>>>,
      <<119981, 2, <<>>>>, <<119982, 3, <<115>>>>, <<119983, 3, <<116>>>>,
      <<119984, 3, <<117>>>>, <<119985, 3, <<118>>>>, <<119986, 3, <<119>>>>,
      <<119987, 3, <<120>>>>, <<119988, 3, <<121>>>>, <<119989, 3, <<122>>>>,
      <<119990, 3, <<97>>>>, <<119991, 3, <<98>>>>, <<119992, 3, <<99>>>>,
      <<119993, 3, <<100>>>>, <<119994, 2, <<>>>>, <<119995, 3, <<102>>>>, <<119996, 2, <<>>>>,
      <<119997, 3, <<104>>>>, <<119998, 3, <<105>>>>, <<119999, 3, <<106>>>>,
      <<120000, 3, <<107>>>>, <<120001, 3, <<108>>>>, <<120002, 3, <<109>>>>,
      <<120003, 3, <<110>>>>, <<120004, 2, <<>>>>, <<120005, 3, <<112>>>>,
      <<120006, 3, <<113>>>>, <<120007, 3, <<114>>>>, <<120008, 3, <<115>>>>,
      <<120009, 3, <<116>>>>, <<120010, 3, <<117>>>>, <<120011, 3, <<118>>>>,
      <<120012, 3, <<119>>>>, <<120013, 3, <<120>>>>, <<120014, 3, <<121>>>>,
      <<120015, 3, <<122>>>>, <<120016, 3, <<97>>>>, <<120017, 3, <<98>>>>,
      <<120018, 3, <<99>>>>, <<120019, 3, <<100>>>>, <<120020, 3, <<101>>>>,
      <<120021, 3, <<102>>>>, <<120022, 3, <<103>>>>, <<120023, 3, <<104>>>>,
      <<120024, 3, <<105>>>>, <<120025, 3, <<106>>>>, <<120026, 3, <<107>>>>,
      <<120027, 3, <<108>>>>, <<120028, 3, <<109>>>>, <<120029, 3, <<110>>>>,
      <<120030, 3, <<111>>>>, <<120031, 3, <<112>>>>, <<120032, 3, <<113>>>>,
      <<120033, 3, <<114>>>>, <<120034, 3, <<115>>>>, <<120035, 3, <<116>>>>,
      <<120036, 3, <<117>>>>, <<120037, 3, <<118>>>>, <<120038, 3, <<119>>>>,
      <<120039, 3, <<120>>>>, <<120040, 3, <<121>>>>, <<120041, 3, <<122>>>>,
      <<120042, 3, <<97>>>>, <<120043, 3, <<98>>>>, <<120044, 3, <<99>>>>,
      <<120045, 3, <<100>>>>, <<120046, 3, <<101>>>>, <<120047, 3, <<102>>>>,
      <<120048, 3, <<103>>>>, <<120049, 3, <<104>>>>, <<120050, 3, <<105>>>>,
      <<120051, 3, <<106>>>>, <<120052, 3, <<107>>>>, <<120053, 3, <<108>>>>,
      <<120054, 3, <<109>>>>, <<120055, 3, <<110>>>>, <<120056, 3, <<111>>>>,
      <<120057, 3, <<112>>>>, <<120058, 3, <<113>>>>, <<120059, 3, <<114>>>>,
      <<120060, 3, <<115>>>>, <<120061, 3, <<116>>>>, <<120062, 3, <<117>>>>,
      <<120063, 3, <<118>>>>, <<120064, 3, <<119>>>>, <<120065, 3, <<120>>>>,
      <<120066, 3, <<121>>>>, <<120067, 3, <<122>>>>, <<120068, 3, <<97>>>>,
      <<120069, 3, <<98>>>>, <<120070, 2, <<>>>>, <<120071, 3, <<100>>>>,
      <<120072, 3, <<101>>>>, <<120073, 3, <<102>>>>, <<120074, 3, <<103>>>>,
      <<120075, 2, <<>>>>, <<120077, 3, <<106>>>>, <<120078, 3, <<107>>>>,
      <<120079, 3, <<108>>>>, <<120080, 3, <<109>>>>, <<120081, 3, <<110>>>>,
      <<120082, 3, <<111>>>>, <<120083, 3, <<112>>>>, <<120084, 3, <<113>>>>,
      <<120085, 2, <<>>>>, <<120086, 3, <<115>>>>, <<120087, 3, <<116>>>>,
      <<120088, 3, <<117>>>>, <<120089, 3, <<118>>>>, <<120090, 3, <<119>>>>,
      <<120091, 3, <<120>>>>, <<120092, 3, <<121>>>>, <<120093, 2, <<>>>>,
      <<120094, 3, <<97>>>>, <<120095, 3, <<98>>>>, <<120096, 3, <<99>>>>,
      <<120097, 3, <<100>>>>, <<120098, 3, <<101>>>>, <<120099, 3, <<102>>>>,
      <<120100, 3, <<103>>>>, <<120101, 3, <<104>>>>, <<120102, 3, <<105>>>>,
      <<120103, 3, <<106>>>>, <<120104, 3, <<107>>>>, <<120105, 3, <<108>>>>,
      <<120106, 3, <<109>>>>, <<120107, 3, <<110>>>>, <<120108, 3, <<111>>>>,
      <<120109, 3, <<112>>>>, <<120110, 3, <<113>>>>, <<120111, 3, <<114>>>>,
      <<120112, 3, <<115>>>>, <<120113, 3, <<116>>>>, <<120114, 3, <<117>>>>,
      <<120115, 3, <<118>>>>, <<120116, 3, <<119>>>>, <<120117, 3, <<120>>>>,
      <<120118, 3, <<121>>>>, <<120119, 3, <<122>>>>, <<120120, 3, <<97>>>>,
      <<120121, 3, <<98>>>>, <<120122, 2, <<>>>>, <<120123, 3, <<100>>>>,
      <<120124, 3, <<101>>>>, <<120125, 3, <<102>>>>, <<120126, 3, <<103>>>>,
      <<120127, 2, <<>>>>, <<120128, 3, <<105>>>>, <<120129, 3, <<106>>>>,
      <<120130, 3, <<107>>>>, <<120131, 3, <<108>>>>, <<120132, 3, <<109>>>>,
      <<120133, 2, <<>>>>, <<120134, 3, <<111>>>>, <<120135, 2, <<>>>>, <<120138, 3, <<115>>>>,
      <<120139, 3, <<116>>>>, <<120140, 3, <<117>>>>, <<120141, 3, <<118>>>>,
      <<120142, 3, <<119>>>>, <<120143, 3, <<120>>>>, <<120144, 3, <<121>>>>,
      <<120145, 2, <<>>>>, <<120146, 3, <<97>>>>, <<120147, 3, <<98>>>>, <<120148, 3, <<99>>>>,
      <<120149, 3, <<100>>>>, <<120150, 3, <<101>>>>, <<120151, 3, <<102>>>>,
      <<120152, 3, <<103>>>>, <<120153, 3, <<104>>>>, <<120154, 3, <<105>>>>,
      <<120155, 3, <<106>>>>, <<120156, 3, <<107>>>>, <<120157, 3, <<108>>>>,
      <<120158, 3, <<109>>>>, <<120159, 3, <<110>>>>, <<120160, 3, <<111>>>>,
      <<120161, 3, <<112>>>>, <<120162, 3, <<113>>>>, <<120163, 3, <<114>>>>,
      <<120164, 3, <<115>>>>, <<120165, 3, <<116>>>>, <<120166, 3, <<117>>>>,
      <<120167, 3, <<118>>>>, <<120168, 3, <<119>>>>, <<120169, 3, <<120>>>>,
      <<120170, 3, <<121>>>>, <<120171, 3, <<122>>>>, <<120172, 3, <<97>>>>,
      <<120173, 3, <<98>>>>, <<120174, 3, <<99>>>>, <<120175, 3, <<100>>>>,
      <<120176, 3, <<101>>>>, <<120177, 3, <<102>>>>, <<120178, 3, <<103>>>>,
      <<120179, 3, <<104>>>>, <<120180, 3, <<105>>>>, <<120181, 3, <<106>>>>,
      <<120182, 3, <<107>>>>, <<120183, 3, <<108>>>>, <<120184, 3, <<109>>>>,
      <<120185, 3, <<110>>>>, <<120186, 3, <<111>>>>, <<120187, 3, <<112>>>>,
      <<120188, 3, <<113>>>>, <<120189, 3, <<114>>>>, <<120190, 3, <<115>>>>,
      <<120191, 3, <<116>>>>, <<120192, 3, <<117>>>>, <<120193, 3, <<118>>>>,
      <<120194, 3, <<119>>>>, <<120195, 3, <<120>>>>, <<120196, 3, <<121>>>>,
      <<120197, 3, <<122>>>>, <<120198, 3, <<97>>>>, <<120199, 3, <<98>>>>,
      <<120200, 3, <<99>>>>, <<120201, 3, <<100>>>>, <<120202, 3, <<101>>>>,
      <<120203, 3, <<102>>>>, <<120204, 3, <<103>>>>, <<120205, 3, <<104>>>>,
      <<120206, 3, <<105>>>>, <<120207, 3, <<106>>>>, <<120208, 3, <<107>>>>,
      <<120209, 3, <<108>>>>, <<120210, 3, <<109>>>>, <<120211, 3, <<110>>>>,
      <<120212, 3, <<111>>>>, <<120213, 3, <<112>>>>, <<120214, 3, <<113>>>>,
      <<120215, 3, <<114>>>>, <<120216, 3, <<115>>>>, <<120217, 3, <<116>>>>,
      <<120218, 3, <<117>>>>, <<120219, 3, <<118>>>>, <<120220, 3, <<119>>>>,
      <<120221, 3, <<120>>>>, <<120222, 3, <<121>>>>, <<120223, 3, <<122>>>>,
      <<120224, 3, <<97>>>>, <<120225, 3, <<98>>>>, <<120226, 3, <<99>>>>,
      <<120227, 3, <<100>>>>, <<120228, 3, <<101>>>>, <<120229, 3, <<102>>>>,
      <<120230, 3, <<103>>>>, <<120231, 3, <<104>>>>, <<120232, 3, <<105>>>>,
      <<120233, 3, <<106>>>>, <<120234, 3, <<107>>>>, <<120235, 3, <<108>>>>,
      <<120236, 3, <<109>>>>, <<120237, 3, <<110>>>>, <<120238, 3, <<111>>>>,
      <<120239, 3, <<112>>>>, <<120240, 3, <<113>>>>, <<120241, 3, <<114>>>>,
      <<120242, 3, <<115>>>>, <<120243, 3, <<116>>>>, <<120244, 3, <<117>>>>,
      <<120245, 3, <<118>>>>, <<120246, 3, <<119>>>>, <<120247, 3, <<120>>>>,
      <<120248, 3, <<121>>>>, <<120249, 3, <<122>>>>, <<120250, 3, <<97>>>>,
      <<120251, 3, <<98>>>>, <<120252, 3, <<99>>>>, <<120253, 3, <<100>>>>,
      <<120254, 3, <<101>>>>, <<120255, 3, <<102>>>>, <<120256, 3, <<103>>>>,
      <<120257, 3, <<104>>>>, <<120258, 3, <<105>>>>, <<120259, 3, <<106>>>>,
      <<120260, 3, <<107>>>>, <<120261, 3, <<108>>>>, <<120262, 3, <<109>>>>,
      <<120263, 3, <<110>>>>, <<120264, 3, <<111>>>>, <<120265, 3, <<112>>>>,
      <<120266, 3, <<113>>>>, <<120267, 3, <<114>>>>, <<120268, 3, <<115>>>>,
      <<120269, 3, <<116>>>>, <<120270, 3, <<117>>>>, <<120271, 3, <<118>>>>,
      <<120272, 3, <<119>>>>, <<120273, 3, <<120>>>>, <<120274, 3, <<121>>>>,
      <<120275, 3, <<122>>>>, <<120276, 3, <<97>>>>, <<120277, 3, <<98>>>>,
      <<120278, 3, <<99>>>>, <<120279, 3, <<100>>>>, <<120280, 3, <<101>>>>,
      <<120281, 3, <<102>>>>, <<120282, 3, <<103>>>>, <<120283, 3, <<104>>>>,
      <<120284, 3, <<105>>>>, <<120285, 3, <<106>>>>, <<120286, 3, <<107>>>>,
      <<120287, 3, <<108>>>>, <<120288, 3, <<109>>>>, <<120289, 3, <<110>>>>,
      <<120290, 3, <<111>>>>, <<120291, 3, <<112>>>>, <<120292, 3, <<113>>>>,
      <<120293, 3, <<114>>>>, <<120294, 3, <<115>>>>, <<120295, 3, <<116>>>>,
      <<120296, 3, <<117>>>>, <<120297, 3, <<118>>>>, <<120298, 3, <<119>>>>,
      <<120299, 3, <<120>>>>, <<120300, 3, <<121>>>>, <<120301, 3, <<122>>>>,
      <<120302, 3, <<97>>>>, <<120303, 3, <<98>>>>, <<120304, 3, <<99>>>>,
      <<120305, 3, <<100>>>>, <<120306, 3, <<101>>>>, <<120307, 3, <<102>>>>,
      <<120308, 3, <<103>>>>, <<120309, 3, <<104>>>>, <<120310, 3, <<105>>>>,
      <<120311, 3, <<106>>>>, <<120312, 3, <<107>>>>, <<120313, 3, <<108>>>>,
      <<120314, 3, <<109>>>>, <<120315, 3, <<110>>>>, <<120316, 3, <<111>>>>,
      <<120317, 3, <<112>>>>, <<120318, 3, <<113>>>>, <<120319, 3, <<114>>>>,
      <<120320, 3, <<115>>>>, <<120321, 3, <<116>>>>, <<120322, 3, <<117>>>>,
      <<120323, 3, <<118>>>>, <<120324, 3, <<119>>>>, <<120325, 3, <<120>>>>,
      <<120326, 3, <<121>>>>, <<120327, 3, <<122>>>>, <<120328, 3, <<97>>>>,
      <<120329, 3, <<98>>>>, <<120330, 3, <<99>>>>, <<120331, 3, <<100>>>>,
      <<120332, 3, <<101>>>>, <<120333, 3, <<102>>>>, <<120334, 3, <<103>>>>,
      <<120335, 3, <<104>>>>, <<120336, 3, <<105>>>>, <<120337, 3, <<106>>>>,
      <<120338, 3, <<107>>>>, <<120339, 3, <<108>>>>, <<120340, 3, <<109>>>>,
      <<120341, 3, <<110>>>>, <<120342, 3, <<111>>>>, <<120343, 3, <<112>>>>,
      <<120344, 3, <<113>>>>, <<120345, 3, <<114>>>>, <<120346, 3, <<115>>>>,
      <<120347, 3, <<116>>>>, <<120348, 3, <<117>>>>, <<120349, 3, <<118>>>>,
      <<120350, 3, <<119>>>>, <<120351, 3, <<120>>>>, <<120352, 3, <<121>>>>,
      <<120353, 3, <<122>>>>, <<120354, 3, <<97>>>>, <<120355, 3, <<98>>>>,
      <<120356, 3, <<99>>>>, <<120357, 3, <<100>>>>, <<120358, 3, <<101>>>>,
      <<120359, 3, <<102>>>>, <<120360, 3, <<103>>>>, <<120361, 3, <<104>>>>,
      <<120362, 3, <<105>>>>, <<120363, 3, <<106>>>>, <<120364, 3, <<107>>>>,
      <<120365, 3, <<108>>>>, <<120366, 3, <<109>>>>, <<120367, 3, <<110>>>>,
      <<120368, 3, <<111>>>>, <<120369, 3, <<112>>>>, <<120370, 3, <<113>>>>,
      <<120371, 3, <<114>>>>, <<120372, 3, <<115>>>>, <<120373, 3, <<116>>>>,
      <<120374, 3, <<117>>>>, <<120375, 3, <<118>>>>, <<120376, 3, <<119>>>>,
      <<120377, 3, <<120>>>>, <<120378, 3, <<121>>>>, <<120379, 3, <<122>>>>,
      <<120380, 3, <<97>>>>, <<120381, 3, <<98>>>>, <<120382, 3, <<99>>>>,
      <<120383, 3, <<100>>>>, <<120384, 3, <<101>>>>, <<120385, 3, <<102>>>>,
      <<120386, 3, <<103>>>>, <<120387, 3, <<104>>>>, <<120388, 3, <<105>>>>,
      <<120389, 3, <<106>>>>, <<120390, 3, <<107>>>>, <<120391, 3, <<108>>>>,
      <<120392, 3, <<109>>>>, <<120393, 3, <<110>>>>, <<120394, 3, <<111>>>>,
      <<120395, 3, <<112>>>>, <<120396, 3, <<113>>>>, <<120397, 3, <<114>>>>,
      <<120398, 3, <<115>>>>, <<120399, 3, <<116>>>>, <<120400, 3, <<117>>>>,
      <<120401, 3, <<118>>>>, <<120402, 3, <<119>>>>, <<120403, 3, <<120>>>>,
      <<120404, 3, <<121>>>>, <<120405, 3, <<122>>>>, <<120406, 3, <<97>>>>,
      <<120407, 3, <<98>>>>, <<120408, 3, <<99>>>>, <<120409, 3, <<100>>>>,
      <<120410, 3, <<101>>>>, <<120411, 3, <<102>>>>, <<120412, 3, <<103>>>>,
      <<120413, 3, <<104>>>>, <<120414, 3, <<105>>>>, <<120415, 3, <<106>>>>,
      <<120416, 3, <<107>>>>, <<120417, 3, <<108>>>>, <<120418, 3, <<109>>>>,
      <<120419, 3, <<110>>>>, <<120420, 3, <<111>>>>, <<120421, 3, <<112>>>>,
      <<120422, 3, <<113>>>>, <<120423, 3, <<114>>>>, <<120424, 3, <<115>>>>,
      <<120425, 3, <<116>>>>, <<120426, 3, <<117>>>>, <<120427, 3, <<118>>>>,
      <<120428, 3, <<119>>>>, <<120429, 3, <<120>>>>, <<120430, 3, <<121>>>>,
      <<120431, 3, <<122>>>>, <<120432, 3, <<97>>>>, <<120433, 3, <<98>>>>,
      <<120434, 3, <<99>>>>, <<120435, 3, <<100>>>>, <<120436, 3, <<101>>>>,
      <<120437, 3, <<102>>>>, <<120438, 3, <<103>>>>, <<120439, 3, <<104>>>>,
      <<120440, 3, <<105>>>>, <<120441, 3, <<106>>>>, <<120442, 3, <<107>>>>,
      <<120443, 3, <<108>>>>, <<120444, 3, <<109>>>>, <<120445, 3, <<110>>>>,
      <<120446, 3, <<111>>>>, <<120447, 3, <<112>>>>, <<120448, 3, <<113>>>>,
      <<120449, 3, <<114>>>>, <<120450, 3, <<115>>>>, <<120451, 3, <<116>>>>,
      <<120452, 3, <<117>>>>, <<120453, 3, <<118>>>>, <<120454, 3, <<119>>>>,
      <<120455, 3, <<120>>>>, <<120456, 3, <<121>>>>, <<120457, 3, <<122>>>>,
      <<120458, 3, <<97>>>>, <<120459, 3, <<98>>>>, <<120460, 3, <<99>>>>,
      <<120461, 3, <<100>>>>, <<120462, 3, <<101>>>>, <<120463, 3, <<102>>>>,
      <<120464, 3, <<103>>>>, <<120465, 3, <<104>>>>, <<120466, 3, <<105>>>>,
      <<120467, 3, <<106>>>>, <<120468, 3, <<107>>>>, <<120469, 3, <<108>>>>,
      <<120470, 3, <<109>>>>, <<120471, 3, <<110>>>>, <<120472, 3, <<111>>>>,
      <<120473, 3, <<112>>>>, <<120474, 3, <<113>>>>, <<120475, 3, <<114>>>>,
      <<120476, 3, <<115>>>>, <<120477, 3, <<116>>>>, <<120478, 3, <<117>>>>,
      <<120479, 3, <<118>>>>, <<120480, 3, <<119>>>>, <<120481, 3, <<120>>>>,
      <<120482, 3, <<121>>>>, <<120483, 3, <<122>>>>, <<120484, 3, <<305>>>>,
      <<120485, 3, <<567>>>>, <<120486, 2, <<>>>>, <<120488, 3, <<945>>>>,
      <<120489, 3, <<946>>>>, <<120490, 3, <<947>>>>, <<120491, 3, <<948>>>>,
      <<120492, 3, <<949>>>>, <<120493, 3, <<950>>>>, <<120494, 3, <<951>>>>,
      <<120495, 3, <<952>>>>, <<120496, 3, <<953>>>>, <<120497, 3, <<954>>>>,
      <<120498, 3, <<955>>>>, <<120499, 3, <<956>>>>, <<120500, 3, <<957>>>>,
      <<120501, 3, <<958>>>>, <<120502, 3, <<959>>>>, <<120503, 3, <<960>>>>,
      <<120504, 3, <<961>>>>, <<120505, 3, <<952>>>>, <<120506, 3, <<963>>>>,
      <<120507, 3, <<964>>>>, <<120508, 3, <<965>>>>, <<120509, 3, <<966>>>>,
      <<120510, 3, <<967>>>>, <<120511, 3, <<968>>>>, <<120512, 3, <<969>>>>,
      <<120513, 3, <<8711>>>>, <<120514, 3, <<945>>>>, <<120515, 3, <<946>>>>,
      <<120516, 3, <<947>>>>, <<120517, 3, <<948>>>>, <<120518, 3, <<949>>>>,
      <<120519, 3, <<950>>>>, <<120520, 3, <<951>>>>, <<120521, 3, <<952>>>>,
      <<120522, 3, <<953>>>>, <<120523, 3, <<954>>>>, <<120524, 3, <<955>>>>,
      <<120525, 3, <<956>>>>, <<120526, 3, <<957>>>>, <<120527, 3, <<958>>>>,
      <<120528, 3, <<959>>>>, <<120529, 3, <<960>>>>, <<120530, 3, <<961>>>>,
      <<120531, 3, <<963>>>>, <<120533, 3, <<964>>>>, <<120534, 3, <<965>>>>,
      <<120535, 3, <<966>>>>, <<120536, 3, <<967>>>>, <<120537, 3, <<968>>>>,
      <<120538, 3, <<969>>>>, <<120539, 3, <<8706>>>>, <<120540, 3, <<949>>>>,
      <<120541, 3, <<952>>>>, <<120542, 3, <<954>>>>, <<120543, 3, <<966>>>>,
      <<120544, 3, <<961>>>>, <<120545, 3, <<960>>>>, <<120546, 3, <<945>>>>,
      <<120547, 3, <<946>>>>, <<120548, 3, <<947>>>>, <<120549, 3, <<948>>>>,
      <<120550, 3, <<949>>>>, <<120551, 3, <<950>>>>, <<120552, 3, <<951>>>>,
      <<120553, 3, <<952>>>>, <<120554, 3, <<953>>>>, <<120555, 3, <<954>>>>,
      <<120556, 3, <<955>>>>, <<120557, 3, <<956>>>>, <<120558, 3, <<957>>>>,
      <<120559, 3, <<958>>>>, <<120560, 3, <<959>>>>, <<120561, 3, <<960>>>>,
      <<120562, 3, <<961>>>>, <<120563, 3, <<952>>>>, <<120564, 3, <<963>>>>,
      <<120565, 3, <<964>>>>, <<120566, 3, <<965>>>>, <<120567, 3, <<966>>>>,
      <<120568, 3, <<967>>>>, <<120569, 3, <<968>>>>, <<120570, 3, <<969>>>>,
      <<120571, 3, <<8711>>>>, <<120572, 3, <<945>>>>, <<120573, 3, <<946>>>>,
      <<120574, 3, <<947>>>>, <<120575, 3, <<948>>>>, <<120576, 3, <<949>>>>,
      <<120577, 3, <<950>>>>, <<120578, 3, <<951>>>>, <<120579, 3, <<952>>>>,
      <<120580, 3, <<953>>>>, <<120581, 3, <<954>>>>, <<120582, 3, <<955>>>>,
      <<120583, 3, <<956>>>>, <<120584, 3, <<957>>>>, <<120585, 3, <<958>>>>,
      <<120586, 3, <<959>>>>, <<120587, 3, <<960>>>>, <<120588, 3, <<961>>>>,
      <<120589, 3, <<963>>>>, <<120591, 3, <<964>>>>, <<120592, 3, <<965>>>>,
      <<120593, 3, <<966>>>>, <<120594, 3, <<967>>>>, <<120595, 3, <<968>>>>,
      <<120596, 3, <<969>>>>, <<120597, 3, <<8706>>>>, <<120598, 3, <<949>>>>,
      <<120599, 3, <<952>>>>, <<120600, 3, <<954>>>>, <<120601, 3, <<966>>>>,
      <<120602, 3, <<961>>>>, <<120603, 3, <<960>>>>, <<120604, 3, <<945>>>>,
      <<120605, 3, <<946>>>>, <<120606, 3, <<947>>>>, <<120607, 3, <<948>>>>,
      <<120608, 3, <<949>>>>, <<120609, 3, <<950>>>>, <<120610, 3, <<951>>>>,
      <<120611, 3, <<952>>>>, <<120612, 3, <<953>>>>, <<120613, 3, <<954>>>>,
      <<120614, 3, <<955>>>>, <<120615, 3, <<956>>>>, <<120616, 3, <<957>>>>,
      <<120617, 3, <<958>>>>, <<120618, 3, <<959>>>>, <<120619, 3, <<960>>>>,
      <<120620, 3, <<961>>>>, <<120621, 3, <<952>>>>, <<120622, 3, <<963>>>>,
      <<120623, 3, <<964>>>>, <<120624, 3, <<965>>>>, <<120625, 3, <<966>>>>,
      <<120626, 3, <<967>>>>, <<120627, 3, <<968>>>>, <<120628, 3, <<969>>>>,
      <<120629, 3, <<8711>>>>, <<120630, 3, <<945>>>>, <<120631, 3, <<946>>>>,
      <<120632, 3, <<947>>>>, <<120633, 3, <<948>>>>, <<120634, 3, <<949>>>>,
      <<120635, 3, <<950>>>>, <<120636, 3, <<951>>>>, <<120637, 3, <<952>>>>,
      <<120638, 3, <<953>>>>, <<120639, 3, <<954>>>>, <<120640, 3, <<955>>>>,
      <<120641, 3, <<956>>>>, <<120642, 3, <<957>>>>, <<120643, 3, <<958>>>>,
      <<120644, 3, <<959>>>>, <<120645, 3, <<960>>>>, <<120646, 3, <<961>>>>,
      <<120647, 3, <<963>>>>, <<120649, 3, <<964>>>>, <<120650, 3, <<965>>>>,
      <<120651, 3, <<966>>>>, <<120652, 3, <<967>>>>, <<120653, 3, <<968>>>>,
      <<120654, 3, <<969>>>>, <<120655, 3, <<8706>>>>, <<120656, 3, <<949>>>>,
      <<120657, 3, <<952>>>>, <<120658, 3, <<954>>>>, <<120659, 3, <<966>>>>,
      <<120660, 3, <<961>>>>, <<120661, 3, <<960>>>>, <<120662, 3, <<945>>>>,
      <<120663, 3, <<946>>>>, <<120664, 3, <<947>>>>, <<120665, 3, <<948>>>>,
      <<120666, 3, <<949>>>>, <<120667, 3, <<950>>>>, <<120668, 3, <<951>>>>,
      <<120669, 3, <<952>>>>, <<120670, 3, <<953>>>>, <<120671, 3, <<954>>>>,
      <<120672, 3, <<955>>>>, <<120673, 3, <<956>>>>, <<120674, 3, <<957>>>>,
      <<120675, 3, <<958>>>>, <<120676, 3, <<959>>>>, <<120677, 3, <<960>>>>,
      <<120678, 3, <<961>>>>, <<120679, 3, <<952>>>>, <<120680, 3, <<963>>>>,
      <<120681, 3, <<964>>>>, <<120682, 3, <<965>>>>, <<120683, 3, <<966>>>>,
      <<120684, 3, <<967>>>>, <<120685, 3, <<968>>>>, <<120686, 3, <<969>>>>,
      <<120687, 3, <<8711>>>>, <<120688, 3, <<945>>>>, <<120689, 3, <<946>>>>,
      <<120690, 3, <<947>>>>, <<120691, 3, <<948>>>>, <<120692, 3, <<949>>>>,
      <<120693, 3, <<950>>>>, <<120694, 3, <<951>>>>, <<120695, 3, <<952>>>>,
      <<120696, 3, <<953>>>>, <<120697, 3, <<954>>>>, <<120698, 3, <<955>>>>,
      <<120699, 3, <<956>>>>, <<120700, 3, <<957>>>>, <<120701, 3, <<958>>>>,
      <<120702, 3, <<959>>>>, <<120703, 3, <<960>>>>, <<120704, 3, <<961>>>>,
      <<120705, 3, <<963>>>>, <<120707, 3, <<964>>>>, <<120708, 3, <<965>>>>,
      <<120709, 3, <<966>>>>, <<120710, 3, <<967>>>>, <<120711, 3, <<968>>>>,
      <<120712, 3, <<969>>>>, <<120713, 3, <<8706>>>>, <<120714, 3, <<949>>>>,
      <<120715, 3, <<952>>>>, <<120716, 3, <<954>>>>, <<120717, 3, <<966>>>>,
      <<120718, 3, <<961>>>>, <<120719, 3, <<960>>>>, <<120720, 3, <<945>>>>,
      <<120721, 3, <<946>>>>, <<120722, 3, <<947>>>>, <<120723, 3, <<948>>>>,
      <<120724, 3, <<949>>>>, <<120725, 3, <<950>>>>, <<120726, 3, <<951>>>>,
      <<120727, 3, <<952>>>>, <<120728, 3, <<953>>>>, <<120729, 3, <<954>>>>,
      <<120730, 3, <<955>>>>, <<120731, 3, <<956>>>>, <<120732, 3, <<957>>>>,
      <<120733, 3, <<958>>>>, <<120734, 3, <<959>>>>, <<120735, 3, <<960>>>>,
      <<120736, 3, <<961>>>>, <<120737, 3, <<952>>>>, <<120738, 3, <<963>>>>,
      <<120739, 3, <<964>>>>, <<120740, 3, <<965>>>>, <<120741, 3, <<966>>>>,
      <<120742, 3, <<967>>>>, <<120743, 3, <<968>>>>, <<120744, 3, <<969>>>>,
      <<120745, 3, <<8711>>>>, <<120746, 3, <<945>>>>, <<120747, 3, <<946>>>>,
      <<120748, 3, <<947>>>>, <<120749, 3, <<948>>>>, <<120750, 3, <<949>>>>,
      <<120751, 3, <<950>>>>, <<120752, 3, <<951>>>>, <<120753, 3, <<952>>>>,
      <<120754, 3, <<953>>>>, <<120755, 3, <<954>>>>, <<120756, 3, <<955>>>>,
      <<120757, 3, <<956>>>>, <<120758, 3, <<957>>>>, <<120759, 3, <<958>>>>,
      <<120760, 3, <<959>>>>, <<120761, 3, <<960>>>>, <<120762, 3, <<961>>>>,
      <<120763, 3, <<963>>>>, <<120765, 3, <<964>>>>, <<120766, 3, <<965>>>>,
      <<120767, 3, <<966>>>>, <<120768, 3, <<967>>>>, <<120769, 3, <<968>>>>,
      <<120770, 3, <<969>>>>, <<120771, 3, <<8706>>>>, <<120772, 3, <<949>>>>,
      <<120773, 3, <<952>>>>, <<120774, 3, <<954>>>>, <<120775, 3, <<966>>>>,
      <<120776, 3, <<961>>>>, <<120777, 3, <<960>>>>, <<120778, 3, <<989>>>>,
      <<120780, 2, <<>>>>, <<120782, 3, <<48>>>>, <<120783, 3, <<49>>>>, <<120784, 3, <<50>>>>,
      <<120785, 3, <<51>>>>, <<120786, 3, <<52>>>>, <<120787, 3, <<53>>>>,
      <<120788, 3, <<54>>>>, <<120789, 3, <<55>>>>, <<120790, 3, <<56>>>>,
      <<120791, 3, <<57>>>>, <<120792, 3, <<48>>>>, <<120793, 3, <<49>>>>,
      <<120794, 3, <<50>>>>, <<120795, 3, <<51>>>>, <<120796, 3, <<52>>>>,
      <<120797, 3, <<53>>>>, <<120798, 3, <<54>>>>, <<120799, 3, <<55>>>>,
      <<120800, 3, <<56>>>>, <<120801, 3, <<57>>>>, <<120802, 3, <<48>>>>,
      <<120803, 3, <<49>>>>, <<120804, 3, <<50>>>>, <<120805, 3, <<51>>>>,
      <<120806, 3, <<52>>>>, <<120807, 3, <<53>>>>, <<120808, 3, <<54>>>>,
      <<120809, 3, <<55>>>>, <<120810, 3, <<56>>>>, <<120811, 3, <<57>>>>,
      <<120812, 3, <<48>>>>, <<120813, 3, <<49>>>>, <<120814, 3, <<50>>>>,
      <<120815, 3, <<51>>>>, <<120816, 3, <<52>>>>, <<120817, 3, <<53>>>>,
      <<120818, 3, <<54>>>>, <<120819, 3, <<55>>>>, <<120820, 3, <<56>>>>,
      <<120821, 3, <<57>>>>, <<120822, 3, <<48>>>>, <<120823, 3, <<49>>>>,
      <<120824, 3, <<50>>>>, <<120825, 3, <<51>>>>, <<120826, 3, <<52>>>>,
      <<120827, 3, <<53>>>>, <<120828, 3, <<54>>>>, <<120829, 3, <<55>>>>,
      <<120830, 3, <<56>>>>, <<120831, 3, <<57>>>>, <<120832, 1, <<>>>>, <<121484, 2, <<>>>>,
      <<121499, 1, <<>>>>, <<121504, 2, <<>>>>, <<121505, 1, <<>>>>, <<121520, 2, <<>>>>,
      <<122624, 1, <<>>>>, <<122655, 2, <<>>>>, <<122661, 1, <<>>>>, <<122667, 2, <<>>>>,
      <<122880, 1, <<>>>>, <<122887, 2, <<>>>>, <<122888, 1, <<>>>>, <<122905, 2, <<>>>>,
      <<122907, 1, <<>>>>, <<122914, 2, <<>>>>, <<122915, 1, <<>>>>, <<122917, 2, <<>>>>,
      <<122918, 1, <<>>>>, <<122923, 2, <<>>>>, <<122928, 3, <<1072>>>>,
      <<122929, 3, <<1073>>>>, <<122930, 3, <<1074>>>>, <<122931, 3, <<1075>>>>,
      <<122932, 3, <<1076>>>>, <<122933, 3, <<1077>>>>, <<122934, 3, <<1078>>>>,
      <<122935, 3, <<1079>>>>, <<122936, 3, <<1080>>>>, <<122937, 3, <<1082>>>>,
      <<122938, 3, <<1083>>>>, <<122939, 3, <<1084>>>>, <<122940, 3, <<1086>>>>,
      <<122941, 3, <<1087>>>>, <<122942, 3, <<1088>>>>, <<122943, 3, <<1089>>>>,
      <<122944, 3, <<1090>>>>, <<122945, 3, <<1091>>>>, <<122946, 3, <<1092>>>>,
      <<122947, 3, <<1093>>>>, <<122948, 3, <<1094>>>>, <<122949, 3, <<1095>>>>,
      <<122950, 3, <<1096>>>>, <<122951, 3, <<1099>>>>, <<122952, 3, <<1101>>>>,
      <<122953, 3, <<1102>>>>, <<122954, 3, <<42633>>>>, <<122955, 3, <<1241>>>>,
      <<122956, 3, <<1110>>>>, <<122957, 3, <<1112>>>>, <<122958, 3, <<1257>>>>,
      <<122959, 3, <<1199>>>>, <<122960, 3, <<1231>>>>, <<122961, 3, <<1072>>>>,
      <<122962, 3, <<1073>>>>, <<122963, 3, <<1074>>>>, <<122964, 3, <<1075>>>>,
      <<122965, 3, <<1076>>>>, <<122966, 3, <<1077>>>>, <<122967, 3, <<1078>>>>,
      <<122968, 3, <<1079>>>>, <<122969, 3, <<1080>>>>, <<122970, 3, <<1082>>>>,
      <<122971, 3, <<1083>>>>, <<122972, 3, <<1086>>>>, <<122973, 3, <<1087>>>>,
      <<122974, 3, <<1089>>>>, <<122975, 3, <<1091>>>>, <<122976, 3, <<1092>>>>,
      <<122977, 3, <<1093>>>>, <<122978, 3, <<1094>>>>, <<122979, 3, <<1095>>>>,
      <<122980, 3, <<1096>>>>, <<122981, 3, <<1098>>>>, <<122982, 3, <<1099>>>>,
      <<122983, 3, <<1169>>>>, <<122984, 3, <<1110>>>>, <<122985, 3, <<1109>>>>,
      <<122986, 3, <<1119>>>>, <<122987, 3, <<1195>>>>, <<122988, 3, <<42577>>>>,
      <<122989, 3, <<1201>>>>, <<122990, 2, <<>>>>, <<123023, 1, <<>>>>, <<123024, 2, <<>>>>,
      <<123136, 1, <<>>>>, <<123181, 2, <<>>>>, <<123184, 1, <<>>>>, <<123198, 2, <<>>>>,
      <<123200, 1, <<>>>>, <<123210, 2, <<>>>>, <<123214, 1, <<>>>>, <<123216, 2, <<>>>>,
      <<123536, 1, <<>>>>, <<123567, 2, <<>>>>, <<123584, 1, <<>>>>, <<123642, 2, <<>>>>,
      <<123647, 1, <<>>>>, <<123648, 2, <<>>>>, <<124112, 1, <<>>>>, <<124154, 2, <<>>>>,
      <<124896, 1, <<>>>>, <<124903, 2, <<>>>>, <<124904, 1, <<>>>>, <<124908, 2, <<>>>>,
      <<124909, 1, <<>>>>, <<124911, 2, <<>>>>, <<124912, 1, <<>>>>, <<124927, 2, <<>>>>,
      <<124928, 1, <<>>>>, <<125125, 2, <<>>>>, <<125127, 1, <<>>>>, <<125143, 2, <<>>>>,
      <<125184, 3, <<125218>>>>, <<125185, 3, <<125219>>>>, <<125186, 3, <<125220>>>>,
      <<125187, 3, <<125221>>>>, <<125188, 3, <<125222>>>>, <<125189, 3, <<125223>>>>,
      <<125190, 3, <<125224>>>>, <<125191, 3, <<125225>>>>, <<125192, 3, <<125226>>>>,
      <<125193, 3, <<125227>>>>, <<125194, 3, <<125228>>>>, <<125195, 3, <<125229>>>>,
      <<125196, 3, <<125230>>>>, <<125197, 3, <<125231>>>>, <<125198, 3, <<125232>>>>,
      <<125199, 3, <<125233>>>>, <<125200, 3, <<125234>>>>, <<125201, 3, <<125235>>>>,
      <<125202, 3, <<125236>>>>, <<125203, 3, <<125237>>>>, <<125204, 3, <<125238>>>>,
      <<125205, 3, <<125239>>>>, <<125206, 3, <<125240>>>>, <<125207, 3, <<125241>>>>,
      <<125208, 3, <<125242>>>>, <<125209, 3, <<125243>>>>, <<125210, 3, <<125244>>>>,
      <<125211, 3, <<125245>>>>, <<125212, 3, <<125246>>>>, <<125213, 3, <<125247>>>>,
      <<125214, 3, <<125248>>>>, <<125215, 3, <<125249>>>>, <<125216, 3, <<125250>>>>,
      <<125217, 3, <<125251>>>>, <<125218, 1, <<>>>>, <<125260, 2, <<>>>>, <<125264, 1, <<>>>>,
      <<125274, 2, <<>>>>, <<125278, 1, <<>>>>, <<125280, 2, <<>>>>, <<126065, 1, <<>>>>,
      <<126133, 2, <<>>>>, <<126209, 1, <<>>>>, <<126270, 2, <<>>>>, <<126464, 3, <<1575>>>>,
      <<126465, 3, <<1576>>>>, <<126466, 3, <<1580>>>>, <<126467, 3, <<1583>>>>,
      <<126468, 2, <<>>>>, <<126469, 3, <<1608>>>>, <<126470, 3, <<1586>>>>,
      <<126471, 3, <<1581>>>>, <<126472, 3, <<1591>>>>, <<126473, 3, <<1610>>>>,
      <<126474, 3, <<1603>>>>, <<126475, 3, <<1604>>>>, <<126476, 3, <<1605>>>>,
      <<126477, 3, <<1606>>>>, <<126478, 3, <<1587>>>>, <<126479, 3, <<1593>>>>,
      <<126480, 3, <<1601>>>>, <<126481, 3, <<1589>>>>, <<126482, 3, <<1602>>>>,
      <<126483, 3, <<1585>>>>, <<126484, 3, <<1588>>>>, <<126485, 3, <<1578>>>>,
      <<126486, 3, <<1579>>>>, <<126487, 3, <<1582>>>>, <<126488, 3, <<1584>>>>,
      <<126489, 3, <<1590>>>>, <<126490, 3, <<1592>>>>, <<126491, 3, <<1594>>>>,
      <<126492, 3, <<1646>>>>, <<126493, 3, <<1722>>>>, <<126494, 3, <<1697>>>>,
      <<126495, 3, <<1647>>>>, <<126496, 2, <<>>>>, <<126497, 3, <<1576>>>>,
      <<126498, 3, <<1580>>>>, <<126499, 2, <<>>>>, <<126500, 3, <<1607>>>>,
      <<126501, 2, <<>>>>, <<126503, 3, <<1581>>>>, <<126504, 2, <<>>>>,
      <<126505, 3, <<1610>>>>, <<126506, 3, <<1603>>>>, <<126507, 3, <<1604>>>>,
      <<126508, 3, <<1605>>>>, <<126509, 3, <<1606>>>>, <<126510, 3, <<1587>>>>,
      <<126511, 3, <<1593>>>>, <<126512, 3, <<1601>>>>, <<126513, 3, <<1589>>>>,
      <<126514, 3, <<1602>>>>, <<126515, 2, <<>>>>, <<126516, 3, <<1588>>>>,
      <<126517, 3, <<1578>>>>, <<126518, 3, <<1579>>>>, <<126519, 3, <<1582>>>>,
      <<126520, 2, <<>>>>, <<126521, 3, <<1590>>>>, <<126522, 2, <<>>>>,
      <<126523, 3, <<1594>>>>, <<126524, 2, <<>>>>, <<126530, 3, <<1580>>>>,
      <<126531, 2, <<>>>>, <<126535, 3, <<1581>>>>, <<126536, 2, <<>>>>,
      <<126537, 3, <<1610>>>>, <<126538, 2, <<>>>>, <<126539, 3, <<1604>>>>,
      <<126540, 2, <<>>>>, <<126541, 3, <<1606>>>>, <<126542, 3, <<1587>>>>,
      <<126543, 3, <<1593>>>>, <<126544, 2, <<>>>>, <<126545, 3, <<1589>>>>,
      <<126546, 3, <<1602>>>>, <<126547, 2, <<>>>>, <<126548, 3, <<1588>>>>,
      <<126549, 2, <<>>>>, <<126551, 3, <<1582>>>>, <<126552, 2, <<>>>>,
      <<126553, 3, <<1590>>>>, <<126554, 2, <<>>>>, <<126555, 3, <<1594>>>>,
      <<126556, 2, <<>>>>, <<126557, 3, <<1722>>>>, <<126558, 2, <<>>>>,
      <<126559, 3, <<1647>>>>, <<126560, 2, <<>>>>, <<126561, 3, <<1576>>>>,
      <<126562, 3, <<1580>>>>, <<126563, 2, <<>>>>, <<126564, 3, <<1607>>>>,
      <<126565, 2, <<>>>>, <<126567, 3, <<1581>>>>, <<126568, 3, <<1591>>>>,
      <<126569, 3, <<1610>>>>, <<126570, 3, <<1603>>>>, <<126571, 2, <<>>>>,
      <<126572, 3, <<1605>>>>, <<126573, 3, <<1606>>>>, <<126574, 3, <<1587>>>>,
      <<126575, 3, <<1593>>>>, <<126576, 3, <<1601>>>>, <<126577, 3, <<1589>>>>,
      <<126578, 3, <<1602>>>>, <<126579, 2, <<>>>>, <<126580, 3, <<1588>>>>,
      <<126581, 3, <<1578>>>>, <<126582, 3, <<1579>>>>, <<126583, 3, <<1582>>>>,
      <<126584, 2, <<>>>>, <<126585, 3, <<1590>>>>, <<126586, 3, <<1592>>>>,
      <<126587, 3, <<1594>>>>, <<126588, 3, <<1646>>>>, <<126589, 2, <<>>>>,
      <<126590, 3, <<1697>>>>, <<126591, 2, <<>>>>, <<126592, 3, <<1575>>>>,
      <<126593, 3, <<1576>>>>, <<126594, 3, <<1580>>>>, <<126595, 3, <<1583>>>>,
      <<126596, 3, <<1607>>>>, <<126597, 3, <<1608>>>>, <<126598, 3, <<1586>>>>,
      <<126599, 3, <<1581>>>>, <<126600, 3, <<1591>>>>, <<126601, 3, <<1610>>>>,
      <<126602, 2, <<>>>>, <<126603, 3, <<1604>>>>, <<126604, 3, <<1605>>>>,
      <<126605, 3, <<1606>>>>, <<126606, 3, <<1587>>>>, <<126607, 3, <<1593>>>>,
      <<126608, 3, <<1601>>>>, <<126609, 3, <<1589>>>>, <<126610, 3, <<1602>>>>,
      <<126611, 3, <<1585>>>>, <<126612, 3, <<1588>>>>, <<126613, 3, <<1578>>>>,
      <<126614, 3, <<1579>>>>, <<126615, 3, <<1582>>>>, <<126616, 3, <<1584>>>>,
      <<126617, 3, <<1590>>>>, <<126618, 3, <<1592>>>>, <<126619, 3, <<1594>>>>,
      <<126620, 2, <<>>>>, <<126625, 3, <<1576>>>>, <<126626, 3, <<1580>>>>,
      <<126627, 3, <<1583>>>>, <<126628, 2, <<>>>>, <<126629, 3, <<1608>>>>,
      <<126630, 3, <<1586>>>>, <<126631, 3, <<1581>>>>, <<126632, 3, <<1591>>>>,
      <<126633, 3, <<1610>>>>, <<126634, 2, <<>>>>, <<126635, 3, <<1604>>>>,
      <<126636, 3, <<1605>>>>, <<126637, 3, <<1606>>>>, <<126638, 3, <<1587>>>>,
      <<126639, 3, <<1593>>>>, <<126640, 3, <<1601>>>>, <<126641, 3, <<1589>>>>,
      <<126642, 3, <<1602>>>>, <<126643, 3, <<1585>>>>, <<126644, 3, <<1588>>>>,
      <<126645, 3, <<1578>>>>, <<126646, 3, <<1579>>>>, <<126647, 3, <<1582>>>>,
      <<126648, 3, <<1584>>>>, <<126649, 3, <<1590>>>>, <<126650, 3, <<1592>>>>,
      <<126651, 3, <<1594>>>>, <<126652, 2, <<>>>>, <<126704, 1, <<>>>>, <<126706, 2, <<>>>>,
      <<126976, 1, <<>>>>, <<127020, 2, <<>>>>, <<127024, 1, <<>>>>, <<127124, 2, <<>>>>,
      <<127136, 1, <<>>>>, <<127151, 2, <<>>>>, <<127153, 1, <<>>>>, <<127168, 2, <<>>>>,
      <<127169, 1, <<>>>>, <<127184, 2, <<>>>>, <<127185, 1, <<>>>>, <<127222, 2, <<>>>>,
      <<127233, 3, <<48, 44>>>>, <<127234, 3, <<49, 44>>>>, <<127235, 3, <<50, 44>>>>,
      <<127236, 3, <<51, 44>>>>, <<127237, 3, <<52, 44>>>>, <<127238, 3, <<53, 44>>>>,
      <<127239, 3, <<54, 44>>>>, <<127240, 3, <<55, 44>>>>, <<127241, 3, <<56, 44>>>>,
      <<127242, 3, <<57, 44>>>>, <<127243, 1, <<>>>>, <<127248, 3, <<40, 97, 41>>>>,
      <<127249, 3, <<40, 98, 41>>>>, <<127250, 3, <<40, 99, 41>>>>,
      <<127251, 3, <<40, 100, 41>>>>, <<127252, 3, <<40, 101, 41>>>>,
      <<127253, 3, <<40, 102, 41>>>>, <<127254, 3, <<40, 103, 41>>>>,
      <<127255, 3, <<40, 104, 41>>>>, <<127256, 3, <<40, 105, 41>>>>,
      <<127257, 3, <<40, 106, 41>>>>, <<127258, 3, <<40, 107, 41>>>>,
      <<127259, 3, <<40, 108, 41>>>>, <<127260, 3, <<40, 109, 41>>>>,
      <<127261, 3, <<40, 110, 41>>>>, <<127262, 3, <<40, 111, 41>>>>,
      <<127263, 3, <<40, 112, 41>>>>, <<127264, 3, <<40, 113, 41>>>>,
      <<127265, 3, <<40, 114, 41>>>>, <<127266, 3, <<40, 115, 41>>>>,
      <<127267, 3, <<40, 116, 41>>>>, <<127268, 3, <<40, 117, 41>>>>,
      <<127269, 3, <<40, 118, 41>>>>, <<127270, 3, <<40, 119, 41>>>>,
      <<127271, 3, <<40, 120, 41>>>>, <<127272, 3, <<40, 121, 41>>>>,
      <<127273, 3, <<40, 122, 41>>>>, <<127274, 3, <<12308, 115, 12309>>>>,
      <<127275, 3, <<99>>>>, <<127276, 3, <<114>>>>, <<127277, 3, <<99, 100>>>>,
      <<127278, 3, <<119, 122>>>>, <<127279, 1, <<>>>>, <<127280, 3, <<97>>>>,
      <<127281, 3, <<98>>>>, <<127282, 3, <<99>>>>, <<127283, 3, <<100>>>>,
      <<127284, 3, <<101>>>>, <<127285, 3, <<102>>>>, <<127286, 3, <<103>>>>,
      <<127287, 3, <<104>>>>, <<127288, 3, <<105>>>>, <<127289, 3, <<106>>>>,
      <<127290, 3, <<107>>>>, <<127291, 3, <<108>>>>, <<127292, 3, <<109>>>>,
      <<127293, 3, <<110>>>>, <<127294, 3, <<111>>>>, <<127295, 3, <<112>>>>,
      <<127296, 3, <<113>>>>, <<127297, 3, <<114>>>>, <<127298, 3, <<115>>>>,
      <<127299, 3, <<116>>>>, <<127300, 3, <<117>>>>, <<127301, 3, <<118>>>>,
      <<127302, 3, <<119>>>>, <<127303, 3, <<120>>>>, <<127304, 3, <<121>>>>,
      <<127305, 3, <<122>>>>, <<127306, 3, <<104, 118>>>>, <<127307, 3, <<109, 118>>>>,
      <<127308, 3, <<115, 100>>>>, <<127309, 3, <<115, 115>>>>,
      <<127310, 3, <<112, 112, 118>>>>, <<127311, 3, <<119, 99>>>>, <<127312, 1, <<>>>>,
      <<127338, 3, <<109, 99>>>>, <<127339, 3, <<109, 100>>>>, <<127340, 3, <<109, 114>>>>,
      <<127341, 1, <<>>>>, <<127376, 3, <<100, 106>>>>, <<127377, 1, <<>>>>,
      <<127406, 2, <<>>>>, <<127462, 1, <<>>>>, <<127488, 3, <<12411, 12363>>>>,
      <<127489, 3, <<12467, 12467>>>>, <<127490, 3, <<12469>>>>, <<127491, 2, <<>>>>,
      <<127504, 3, <<25163>>>>, <<127505, 3, <<23383>>>>, <<127506, 3, <<21452>>>>,
      <<127507, 3, <<12487>>>>, <<127508, 3, <<20108>>>>, <<127509, 3, <<22810>>>>,
      <<127510, 3, <<35299>>>>, <<127511, 3, <<22825>>>>, <<127512, 3, <<20132>>>>,
      <<127513, 3, <<26144>>>>, <<127514, 3, <<28961>>>>, <<127515, 3, <<26009>>>>,
      <<127516, 3, <<21069>>>>, <<127517, 3, <<24460>>>>, <<127518, 3, <<20877>>>>,
      <<127519, 3, <<26032>>>>, <<127520, 3, <<21021>>>>, <<127521, 3, <<32066>>>>,
      <<127522, 3, <<29983>>>>, <<127523, 3, <<36009>>>>, <<127524, 3, <<22768>>>>,
      <<127525, 3, <<21561>>>>, <<127526, 3, <<28436>>>>, <<127527, 3, <<25237>>>>,
      <<127528, 3, <<25429>>>>, <<127529, 3, <<19968>>>>, <<127530, 3, <<19977>>>>,
      <<127531, 3, <<36938>>>>, <<127532, 3, <<24038>>>>, <<127533, 3, <<20013>>>>,
      <<127534, 3, <<21491>>>>, <<127535, 3, <<25351>>>>, <<127536, 3, <<36208>>>>,
      <<127537, 3, <<25171>>>>, <<127538, 3, <<31105>>>>, <<127539, 3, <<31354>>>>,
      <<127540, 3, <<21512>>>>, <<127541, 3, <<28288>>>>, <<127542, 3, <<26377>>>>,
      <<127543, 3, <<26376>>>>, <<127544, 3, <<30003>>>>, <<127545, 3, <<21106>>>>,
      <<127546, 3, <<21942>>>>, <<127547, 3, <<37197>>>>, <<127548, 2, <<>>>>,
      <<127552, 3, <<12308, 26412, 12309>>>>, <<127553, 3, <<12308, 19977, 12309>>>>,
      <<127554, 3, <<12308, 20108, 12309>>>>, <<127555, 3, <<12308, 23433, 12309>>>>,
      <<127556, 3, <<12308, 28857, 12309>>>>, <<127557, 3, <<12308, 25171, 12309>>>>,
      <<127558, 3, <<12308, 30423, 12309>>>>, <<127559, 3, <<12308, 21213, 12309>>>>,
      <<127560, 3, <<12308, 25943, 12309>>>>, <<127561, 2, <<>>>>, <<127568, 3, <<24471>>>>,
      <<127569, 3, <<21487>>>>, <<127570, 2, <<>>>>, <<127584, 1, <<>>>>, <<127590, 2, <<>>>>,
      <<127744, 1, <<>>>>, <<128728, 2, <<>>>>, <<128732, 1, <<>>>>, <<128749, 2, <<>>>>,
      <<128752, 1, <<>>>>, <<128765, 2, <<>>>>, <<128768, 1, <<>>>>, <<128887, 2, <<>>>>,
      <<128891, 1, <<>>>>, <<128986, 2, <<>>>>, <<128992, 1, <<>>>>, <<129004, 2, <<>>>>,
      <<129008, 1, <<>>>>, <<129009, 2, <<>>>>, <<129024, 1, <<>>>>, <<129036, 2, <<>>>>,
      <<129040, 1, <<>>>>, <<129096, 2, <<>>>>, <<129104, 1, <<>>>>, <<129114, 2, <<>>>>,
      <<129120, 1, <<>>>>, <<129160, 2, <<>>>>, <<129168, 1, <<>>>>, <<129198, 2, <<>>>>,
      <<129200, 1, <<>>>>, <<129202, 2, <<>>>>, <<129280, 1, <<>>>>, <<129620, 2, <<>>>>,
      <<129632, 1, <<>>>>, <<129646, 2, <<>>>>, <<129648, 1, <<>>>>, <<129661, 2, <<>>>>,
      <<129664, 1, <<>>>>, <<129673, 2, <<>>>>, <<129680, 1, <<>>>>, <<129726, 2, <<>>>>,
      <<129727, 1, <<>>>>, <<129734, 2, <<>>>>, <<129742, 1, <<>>>>, <<129756, 2, <<>>>>,
      <<129760, 1, <<>>>>, <<129769, 2, <<>>>>, <<129776, 1, <<>>>>, <<129785, 2, <<>>>>,
      <<129792, 1, <<>>>>, <<129939, 2, <<>>>>, <<129940, 1, <<>>>>, <<129995, 2, <<>>>>,
      <<130032, 3, <<48>>>>, <<130033, 3, <<49>>>>, <<130034, 3, <<50>>>>,
      <<130035, 3, <<51>>>>, <<130036, 3, <<52>>>>, <<130037, 3, <<53>>>>,
      <<130038, 3, <<54>>>>, <<130039, 3, <<55>>>>, <<130040, 3, <<56>>>>,
      <<130041, 3, <<57>>>>, <<130042, 2, <<>>>>, <<131072, 1, <<>>>>, <<173792, 2, <<>>>>,
      <<173824, 1, <<>>>>, <<177978, 2, <<>>>>, <<177984, 1, <<>>>>, <<178206, 2, <<>>>>,
      <<178208, 1, <<>>>>, <<183970, 2, <<>>>>, <<183984, 1, <<>>>>, <<191457, 2, <<>>>>,
      <<194560, 3, <<20029>>>>, <<194561, 3, <<20024>>>>, <<194562, 3, <<20033>>>>,
      <<194563, 3, <<131362>>>>, <<194564, 3, <<20320>>>>, <<194565, 3, <<20398>>>>,
      <<194566, 3, <<20411>>>>, <<194567, 3, <<20482>>>>, <<194568, 3, <<20602>>>>,
      <<194569, 3, <<20633>>>>, <<194570, 3, <<20711>>>>, <<194571, 3, <<20687>>>>,
      <<194572, 3, <<13470>>>>, <<194573, 3, <<132666>>>>, <<194574, 3, <<20813>>>>,
      <<194575, 3, <<20820>>>>, <<194576, 3, <<20836>>>>, <<194577, 3, <<20855>>>>,
      <<194578, 3, <<132380>>>>, <<194579, 3, <<13497>>>>, <<194580, 3, <<20839>>>>,
      <<194581, 3, <<20877>>>>, <<194582, 3, <<132427>>>>, <<194583, 3, <<20887>>>>,
      <<194584, 3, <<20900>>>>, <<194585, 3, <<20172>>>>, <<194586, 3, <<20908>>>>,
      <<194587, 3, <<20917>>>>, <<194588, 3, <<168415>>>>, <<194589, 3, <<20981>>>>,
      <<194590, 3, <<20995>>>>, <<194591, 3, <<13535>>>>, <<194592, 3, <<21051>>>>,
      <<194593, 3, <<21062>>>>, <<194594, 3, <<21106>>>>, <<194595, 3, <<21111>>>>,
      <<194596, 3, <<13589>>>>, <<194597, 3, <<21191>>>>, <<194598, 3, <<21193>>>>,
      <<194599, 3, <<21220>>>>, <<194600, 3, <<21242>>>>, <<194601, 3, <<21253>>>>,
      <<194602, 3, <<21254>>>>, <<194603, 3, <<21271>>>>, <<194604, 3, <<21321>>>>,
      <<194605, 3, <<21329>>>>, <<194606, 3, <<21338>>>>, <<194607, 3, <<21363>>>>,
      <<194608, 3, <<21373>>>>, <<194609, 3, <<21375>>>>, <<194612, 3, <<133676>>>>,
      <<194613, 3, <<28784>>>>, <<194614, 3, <<21450>>>>, <<194615, 3, <<21471>>>>,
      <<194616, 3, <<133987>>>>, <<194617, 3, <<21483>>>>, <<194618, 3, <<21489>>>>,
      <<194619, 3, <<21510>>>>, <<194620, 3, <<21662>>>>, <<194621, 3, <<21560>>>>,
      <<194622, 3, <<21576>>>>, <<194623, 3, <<21608>>>>, <<194624, 3, <<21666>>>>,
      <<194625, 3, <<21750>>>>, <<194626, 3, <<21776>>>>, <<194627, 3, <<21843>>>>,
      <<194628, 3, <<21859>>>>, <<194629, 3, <<21892>>>>, <<194631, 3, <<21913>>>>,
      <<194632, 3, <<21931>>>>, <<194633, 3, <<21939>>>>, <<194634, 3, <<21954>>>>,
      <<194635, 3, <<22294>>>>, <<194636, 3, <<22022>>>>, <<194637, 3, <<22295>>>>,
      <<194638, 3, <<22097>>>>, <<194639, 3, <<22132>>>>, <<194640, 3, <<20999>>>>,
      <<194641, 3, <<22766>>>>, <<194642, 3, <<22478>>>>, <<194643, 3, <<22516>>>>,
      <<194644, 3, <<22541>>>>, <<194645, 3, <<22411>>>>, <<194646, 3, <<22578>>>>,
      <<194647, 3, <<22577>>>>, <<194648, 3, <<22700>>>>, <<194649, 3, <<136420>>>>,
      <<194650, 3, <<22770>>>>, <<194651, 3, <<22775>>>>, <<194652, 3, <<22790>>>>,
      <<194653, 3, <<22810>>>>, <<194654, 3, <<22818>>>>, <<194655, 3, <<22882>>>>,
      <<194656, 3, <<136872>>>>, <<194657, 3, <<136938>>>>, <<194658, 3, <<23020>>>>,
      <<194659, 3, <<23067>>>>, <<194660, 3, <<23079>>>>, <<194661, 3, <<23000>>>>,
      <<194662, 3, <<23142>>>>, <<194663, 3, <<14062>>>>, <<194664, 2, <<>>>>,
      <<194665, 3, <<23304>>>>, <<194666, 3, <<23358>>>>, <<194668, 3, <<137672>>>>,
      <<194669, 3, <<23491>>>>, <<194670, 3, <<23512>>>>, <<194671, 3, <<23527>>>>,
      <<194672, 3, <<23539>>>>, <<194673, 3, <<138008>>>>, <<194674, 3, <<23551>>>>,
      <<194675, 3, <<23558>>>>, <<194676, 2, <<>>>>, <<194677, 3, <<23586>>>>,
      <<194678, 3, <<14209>>>>, <<194679, 3, <<23648>>>>, <<194680, 3, <<23662>>>>,
      <<194681, 3, <<23744>>>>, <<194682, 3, <<23693>>>>, <<194683, 3, <<138724>>>>,
      <<194684, 3, <<23875>>>>, <<194685, 3, <<138726>>>>, <<194686, 3, <<23918>>>>,
      <<194687, 3, <<23915>>>>, <<194688, 3, <<23932>>>>, <<194689, 3, <<24033>>>>,
      <<194690, 3, <<24034>>>>, <<194691, 3, <<14383>>>>, <<194692, 3, <<24061>>>>,
      <<194693, 3, <<24104>>>>, <<194694, 3, <<24125>>>>, <<194695, 3, <<24169>>>>,
      <<194696, 3, <<14434>>>>, <<194697, 3, <<139651>>>>, <<194698, 3, <<14460>>>>,
      <<194699, 3, <<24240>>>>, <<194700, 3, <<24243>>>>, <<194701, 3, <<24246>>>>,
      <<194702, 3, <<24266>>>>, <<194703, 3, <<172946>>>>, <<194704, 3, <<24318>>>>,
      <<194705, 3, <<140081>>>>, <<194707, 3, <<33281>>>>, <<194708, 3, <<24354>>>>,
      <<194710, 3, <<14535>>>>, <<194711, 3, <<144056>>>>, <<194712, 3, <<156122>>>>,
      <<194713, 3, <<24418>>>>, <<194714, 3, <<24427>>>>, <<194715, 3, <<14563>>>>,
      <<194716, 3, <<24474>>>>, <<194717, 3, <<24525>>>>, <<194718, 3, <<24535>>>>,
      <<194719, 3, <<24569>>>>, <<194720, 3, <<24705>>>>, <<194721, 3, <<14650>>>>,
      <<194722, 3, <<14620>>>>, <<194723, 3, <<24724>>>>, <<194724, 3, <<141012>>>>,
      <<194725, 3, <<24775>>>>, <<194726, 3, <<24904>>>>, <<194727, 3, <<24908>>>>,
      <<194728, 3, <<24910>>>>, <<194729, 3, <<24908>>>>, <<194730, 3, <<24954>>>>,
      <<194731, 3, <<24974>>>>, <<194732, 3, <<25010>>>>, <<194733, 3, <<24996>>>>,
      <<194734, 3, <<25007>>>>, <<194735, 3, <<25054>>>>, <<194736, 3, <<25074>>>>,
      <<194737, 3, <<25078>>>>, <<194738, 3, <<25104>>>>, <<194739, 3, <<25115>>>>,
      <<194740, 3, <<25181>>>>, <<194741, 3, <<25265>>>>, <<194742, 3, <<25300>>>>,
      <<194743, 3, <<25424>>>>, <<194744, 3, <<142092>>>>, <<194745, 3, <<25405>>>>,
      <<194746, 3, <<25340>>>>, <<194747, 3, <<25448>>>>, <<194748, 3, <<25475>>>>,
      <<194749, 3, <<25572>>>>, <<194750, 3, <<142321>>>>, <<194751, 3, <<25634>>>>,
      <<194752, 3, <<25541>>>>, <<194753, 3, <<25513>>>>, <<194754, 3, <<14894>>>>,
      <<194755, 3, <<25705>>>>, <<194756, 3, <<25726>>>>, <<194757, 3, <<25757>>>>,
      <<194758, 3, <<25719>>>>, <<194759, 3, <<14956>>>>, <<194760, 3, <<25935>>>>,
      <<194761, 3, <<25964>>>>, <<194762, 3, <<143370>>>>, <<194763, 3, <<26083>>>>,
      <<194764, 3, <<26360>>>>, <<194765, 3, <<26185>>>>, <<194766, 3, <<15129>>>>,
      <<194767, 3, <<26257>>>>, <<194768, 3, <<15112>>>>, <<194769, 3, <<15076>>>>,
      <<194770, 3, <<20882>>>>, <<194771, 3, <<20885>>>>, <<194772, 3, <<26368>>>>,
      <<194773, 3, <<26268>>>>, <<194774, 3, <<32941>>>>, <<194775, 3, <<17369>>>>,
      <<194776, 3, <<26391>>>>, <<194777, 3, <<26395>>>>, <<194778, 3, <<26401>>>>,
      <<194779, 3, <<26462>>>>, <<194780, 3, <<26451>>>>, <<194781, 3, <<144323>>>>,
      <<194782, 3, <<15177>>>>, <<194783, 3, <<26618>>>>, <<194784, 3, <<26501>>>>,
      <<194785, 3, <<26706>>>>, <<194786, 3, <<26757>>>>, <<194787, 3, <<144493>>>>,
      <<194788, 3, <<26766>>>>, <<194789, 3, <<26655>>>>, <<194790, 3, <<26900>>>>,
      <<194791, 3, <<15261>>>>, <<194792, 3, <<26946>>>>, <<194793, 3, <<27043>>>>,
      <<194794, 3, <<27114>>>>, <<194795, 3, <<27304>>>>, <<194796, 3, <<145059>>>>,
      <<194797, 3, <<27355>>>>, <<194798, 3, <<15384>>>>, <<194799, 3, <<27425>>>>,
      <<194800, 3, <<145575>>>>, <<194801, 3, <<27476>>>>, <<194802, 3, <<15438>>>>,
      <<194803, 3, <<27506>>>>, <<194804, 3, <<27551>>>>, <<194805, 3, <<27578>>>>,
      <<194806, 3, <<27579>>>>, <<194807, 3, <<146061>>>>, <<194808, 3, <<138507>>>>,
      <<194809, 3, <<146170>>>>, <<194810, 3, <<27726>>>>, <<194811, 3, <<146620>>>>,
      <<194812, 3, <<27839>>>>, <<194813, 3, <<27853>>>>, <<194814, 3, <<27751>>>>,
      <<194815, 3, <<27926>>>>, <<194816, 3, <<27966>>>>, <<194817, 3, <<28023>>>>,
      <<194818, 3, <<27969>>>>, <<194819, 3, <<28009>>>>, <<194820, 3, <<28024>>>>,
      <<194821, 3, <<28037>>>>, <<194822, 3, <<146718>>>>, <<194823, 3, <<27956>>>>,
      <<194824, 3, <<28207>>>>, <<194825, 3, <<28270>>>>, <<194826, 3, <<15667>>>>,
      <<194827, 3, <<28363>>>>, <<194828, 3, <<28359>>>>, <<194829, 3, <<147153>>>>,
      <<194830, 3, <<28153>>>>, <<194831, 3, <<28526>>>>, <<194832, 3, <<147294>>>>,
      <<194833, 3, <<147342>>>>, <<194834, 3, <<28614>>>>, <<194835, 3, <<28729>>>>,
      <<194836, 3, <<28702>>>>, <<194837, 3, <<28699>>>>, <<194838, 3, <<15766>>>>,
      <<194839, 3, <<28746>>>>, <<194840, 3, <<28797>>>>, <<194841, 3, <<28791>>>>,
      <<194842, 3, <<28845>>>>, <<194843, 3, <<132389>>>>, <<194844, 3, <<28997>>>>,
      <<194845, 3, <<148067>>>>, <<194846, 3, <<29084>>>>, <<194847, 2, <<>>>>,
      <<194848, 3, <<29224>>>>, <<194849, 3, <<29237>>>>, <<194850, 3, <<29264>>>>,
      <<194851, 3, <<149000>>>>, <<194852, 3, <<29312>>>>, <<194853, 3, <<29333>>>>,
      <<194854, 3, <<149301>>>>, <<194855, 3, <<149524>>>>, <<194856, 3, <<29562>>>>,
      <<194857, 3, <<29579>>>>, <<194858, 3, <<16044>>>>, <<194859, 3, <<29605>>>>,
      <<194860, 3, <<16056>>>>, <<194862, 3, <<29767>>>>, <<194863, 3, <<29788>>>>,
      <<194864, 3, <<29809>>>>, <<194865, 3, <<29829>>>>, <<194866, 3, <<29898>>>>,
      <<194867, 3, <<16155>>>>, <<194868, 3, <<29988>>>>, <<194869, 3, <<150582>>>>,
      <<194870, 3, <<30014>>>>, <<194871, 3, <<150674>>>>, <<194872, 3, <<30064>>>>,
      <<194873, 3, <<139679>>>>, <<194874, 3, <<30224>>>>, <<194875, 3, <<151457>>>>,
      <<194876, 3, <<151480>>>>, <<194877, 3, <<151620>>>>, <<194878, 3, <<16380>>>>,
      <<194879, 3, <<16392>>>>, <<194880, 3, <<30452>>>>, <<194881, 3, <<151795>>>>,
      <<194882, 3, <<151794>>>>, <<194883, 3, <<151833>>>>, <<194884, 3, <<151859>>>>,
      <<194885, 3, <<30494>>>>, <<194886, 3, <<30495>>>>, <<194888, 3, <<30538>>>>,
      <<194889, 3, <<16441>>>>, <<194890, 3, <<30603>>>>, <<194891, 3, <<16454>>>>,
      <<194892, 3, <<16534>>>>, <<194893, 3, <<152605>>>>, <<194894, 3, <<30798>>>>,
      <<194895, 3, <<30860>>>>, <<194896, 3, <<30924>>>>, <<194897, 3, <<16611>>>>,
      <<194898, 3, <<153126>>>>, <<194899, 3, <<31062>>>>, <<194900, 3, <<153242>>>>,
      <<194901, 3, <<153285>>>>, <<194902, 3, <<31119>>>>, <<194903, 3, <<31211>>>>,
      <<194904, 3, <<16687>>>>, <<194905, 3, <<31296>>>>, <<194906, 3, <<31306>>>>,
      <<194907, 3, <<31311>>>>, <<194908, 3, <<153980>>>>, <<194909, 3, <<154279>>>>,
      <<194911, 2, <<>>>>, <<194912, 3, <<16898>>>>, <<194913, 3, <<154539>>>>,
      <<194914, 3, <<31686>>>>, <<194915, 3, <<31689>>>>, <<194916, 3, <<16935>>>>,
      <<194917, 3, <<154752>>>>, <<194918, 3, <<31954>>>>, <<194919, 3, <<17056>>>>,
      <<194920, 3, <<31976>>>>, <<194921, 3, <<31971>>>>, <<194922, 3, <<32000>>>>,
      <<194923, 3, <<155526>>>>, <<194924, 3, <<32099>>>>, <<194925, 3, <<17153>>>>,
      <<194926, 3, <<32199>>>>, <<194927, 3, <<32258>>>>, <<194928, 3, <<32325>>>>,
      <<194929, 3, <<17204>>>>, <<194930, 3, <<156200>>>>, <<194931, 3, <<156231>>>>,
      <<194932, 3, <<17241>>>>, <<194933, 3, <<156377>>>>, <<194934, 3, <<32634>>>>,
      <<194935, 3, <<156478>>>>, <<194936, 3, <<32661>>>>, <<194937, 3, <<32762>>>>,
      <<194938, 3, <<32773>>>>, <<194939, 3, <<156890>>>>, <<194940, 3, <<156963>>>>,
      <<194941, 3, <<32864>>>>, <<194942, 3, <<157096>>>>, <<194943, 3, <<32880>>>>,
      <<194944, 3, <<144223>>>>, <<194945, 3, <<17365>>>>, <<194946, 3, <<32946>>>>,
      <<194947, 3, <<33027>>>>, <<194948, 3, <<17419>>>>, <<194949, 3, <<33086>>>>,
      <<194950, 3, <<23221>>>>, <<194951, 3, <<157607>>>>, <<194952, 3, <<157621>>>>,
      <<194953, 3, <<144275>>>>, <<194954, 3, <<144284>>>>, <<194955, 3, <<33281>>>>,
      <<194956, 3, <<33284>>>>, <<194957, 3, <<36766>>>>, <<194958, 3, <<17515>>>>,
      <<194959, 3, <<33425>>>>, <<194960, 3, <<33419>>>>, <<194961, 3, <<33437>>>>,
      <<194962, 3, <<21171>>>>, <<194963, 3, <<33457>>>>, <<194964, 3, <<33459>>>>,
      <<194965, 3, <<33469>>>>, <<194966, 3, <<33510>>>>, <<194967, 3, <<158524>>>>,
      <<194968, 3, <<33509>>>>, <<194969, 3, <<33565>>>>, <<194970, 3, <<33635>>>>,
      <<194971, 3, <<33709>>>>, <<194972, 3, <<33571>>>>, <<194973, 3, <<33725>>>>,
      <<194974, 3, <<33767>>>>, <<194975, 3, <<33879>>>>, <<194976, 3, <<33619>>>>,
      <<194977, 3, <<33738>>>>, <<194978, 3, <<33740>>>>, <<194979, 3, <<33756>>>>,
      <<194980, 3, <<158774>>>>, <<194981, 3, <<159083>>>>, <<194982, 3, <<158933>>>>,
      <<194983, 3, <<17707>>>>, <<194984, 3, <<34033>>>>, <<194985, 3, <<34035>>>>,
      <<194986, 3, <<34070>>>>, <<194987, 3, <<160714>>>>, <<194988, 3, <<34148>>>>,
      <<194989, 3, <<159532>>>>, <<194990, 3, <<17757>>>>, <<194991, 3, <<17761>>>>,
      <<194992, 3, <<159665>>>>, <<194993, 3, <<159954>>>>, <<194994, 3, <<17771>>>>,
      <<194995, 3, <<34384>>>>, <<194996, 3, <<34396>>>>, <<194997, 3, <<34407>>>>,
      <<194998, 3, <<34409>>>>, <<194999, 3, <<34473>>>>, <<195000, 3, <<34440>>>>,
      <<195001, 3, <<34574>>>>, <<195002, 3, <<34530>>>>, <<195003, 3, <<34681>>>>,
      <<195004, 3, <<34600>>>>, <<195005, 3, <<34667>>>>, <<195006, 3, <<34694>>>>,
      <<195007, 2, <<>>>>, <<195008, 3, <<34785>>>>, <<195009, 3, <<34817>>>>,
      <<195010, 3, <<17913>>>>, <<195011, 3, <<34912>>>>, <<195012, 3, <<34915>>>>,
      <<195013, 3, <<161383>>>>, <<195014, 3, <<35031>>>>, <<195015, 3, <<35038>>>>,
      <<195016, 3, <<17973>>>>, <<195017, 3, <<35066>>>>, <<195018, 3, <<13499>>>>,
      <<195019, 3, <<161966>>>>, <<195020, 3, <<162150>>>>, <<195021, 3, <<18110>>>>,
      <<195022, 3, <<18119>>>>, <<195023, 3, <<35488>>>>, <<195024, 3, <<35565>>>>,
      <<195025, 3, <<35722>>>>, <<195026, 3, <<35925>>>>, <<195027, 3, <<162984>>>>,
      <<195028, 3, <<36011>>>>, <<195029, 3, <<36033>>>>, <<195030, 3, <<36123>>>>,
      <<195031, 3, <<36215>>>>, <<195032, 3, <<163631>>>>, <<195033, 3, <<133124>>>>,
      <<195034, 3, <<36299>>>>, <<195035, 3, <<36284>>>>, <<195036, 3, <<36336>>>>,
      <<195037, 3, <<133342>>>>, <<195038, 3, <<36564>>>>, <<195039, 3, <<36664>>>>,
      <<195040, 3, <<165330>>>>, <<195041, 3, <<165357>>>>, <<195042, 3, <<37012>>>>,
      <<195043, 3, <<37105>>>>, <<195044, 3, <<37137>>>>, <<195045, 3, <<165678>>>>,
      <<195046, 3, <<37147>>>>, <<195047, 3, <<37432>>>>, <<195048, 3, <<37591>>>>,
      <<195049, 3, <<37592>>>>, <<195050, 3, <<37500>>>>, <<195051, 3, <<37881>>>>,
      <<195052, 3, <<37909>>>>, <<195053, 3, <<166906>>>>, <<195054, 3, <<38283>>>>,
      <<195055, 3, <<18837>>>>, <<195056, 3, <<38327>>>>, <<195057, 3, <<167287>>>>,
      <<195058, 3, <<18918>>>>, <<195059, 3, <<38595>>>>, <<195060, 3, <<23986>>>>,
      <<195061, 3, <<38691>>>>, <<195062, 3, <<168261>>>>, <<195063, 3, <<168474>>>>,
      <<195064, 3, <<19054>>>>, <<195065, 3, <<19062>>>>, <<195066, 3, <<38880>>>>,
      <<195067, 3, <<168970>>>>, <<195068, 3, <<19122>>>>, <<195069, 3, <<169110>>>>,
      <<195070, 3, <<38923>>>>, <<195072, 3, <<38953>>>>, <<195073, 3, <<169398>>>>,
      <<195074, 3, <<39138>>>>, <<195075, 3, <<19251>>>>, <<195076, 3, <<39209>>>>,
      <<195077, 3, <<39335>>>>, <<195078, 3, <<39362>>>>, <<195079, 3, <<39422>>>>,
      <<195080, 3, <<19406>>>>, <<195081, 3, <<170800>>>>, <<195082, 3, <<39698>>>>,
      <<195083, 3, <<40000>>>>, <<195084, 3, <<40189>>>>, <<195085, 3, <<19662>>>>,
      <<195086, 3, <<19693>>>>, <<195087, 3, <<40295>>>>, <<195088, 3, <<172238>>>>,
      <<195089, 3, <<19704>>>>, <<195090, 3, <<172293>>>>, <<195091, 3, <<172558>>>>,
      <<195092, 3, <<172689>>>>, <<195093, 3, <<40635>>>>, <<195094, 3, <<19798>>>>,
      <<195095, 3, <<40697>>>>, <<195096, 3, <<40702>>>>, <<195097, 3, <<40709>>>>,
      <<195098, 3, <<40719>>>>, <<195099, 3, <<40726>>>>, <<195100, 3, <<40763>>>>,
      <<195101, 3, <<173568>>>>, <<195102, 2, <<>>>>, <<196608, 1, <<>>>>, <<201547, 2, <<>>>>,
      <<201552, 1, <<>>>>, <<205744, 2, <<>>>>, <<917760, 0, <<>>>>, <<918000, 2, <<>>>> >>

\* Canonical_Combining_Class where it is not 0: <<first, last, class>>
CombiningClasses ==
    << <<768, 788, 230>>, <<789, 789, 232>>, <<790, 793, 220>>, <<794, 794, 232>>,
      <<795, 795, 216>>, <<796, 800, 220>>, <<801, 802, 202>>, <<803, 806, 220>>,
      <<807, 808, 202>>, <<809, 819, 220>>, <<820, 824, 1>>, <<825, 828, 220>>,
      <<829, 836, 230>>, <<837, 837, 240>>, <<838, 838, 230>>, <<839, 841, 220>>,
      <<842, 844, 230>>, <<845, 846, 220>>, <<848, 850, 230>>, <<851, 854, 220>>,
      <<855, 855, 230>>, <<856, 856, 232>>, <<857, 858, 220>>, <<859, 859, 230>>,
      <<860, 860, 233>>, <<861, 862, 234>>, <<863, 863, 233>>, <<864, 865, 234>>,
      <<866, 866, 233>>, <<867, 879, 230>>, <<1155, 1159, 230>>, <<1425, 1425, 220>>,
      <<1426, 1429, 230>>, <<1430, 1430, 220>>, <<1431, 1433, 230>>, <<1434, 1434, 222>>,
      <<1435, 1435, 220>>, <<1436, 1441, 230>>, <<1442, 1447, 220>>, <<1448, 1449, 230>>,
      <<1450, 1450, 220>>, <<1451, 1452, 230>>, <<1453, 1453, 222>>, <<1454, 1454, 228>>,
      <<1455, 1455, 230>>, <<1456, 1456, 10>>, <<1457, 1457, 11>>, <<1458, 1458, 12>>,
      <<1459, 1459, 13>>, <<1460, 1460, 14>>, <<1461, 1461, 15>>, <<1462, 1462, 16>>,
      <<1463, 1463, 17>>, <<1464, 1464, 18>>, <<1465, 1466, 19>>, <<1467, 1467, 20>>,
      <<1468, 1468, 21>>, <<1469, 1469, 22>>, <<1471, 1471, 23>>, <<1473, 1473, 24>>,
      <<1474, 1474, 25>>, <<1476, 1476, 230>>, <<1477, 1477, 220>>, <<1479, 1479, 18>>,
      <<1552, 1559, 230>>, <<1560, 1560, 30>>, <<1561, 1561, 31>>, <<1562, 1562, 32>>,
      <<1611, 1611, 27>>, <<1612, 1612, 28>>, <<1613, 1613, 29>>, <<1614, 1614, 30>>,
      <<1615, 1615, 31>>, <<1616, 1616, 32>>, <<1617, 1617, 33>>, <<1618, 1618, 34>>,
      <<1619, 1620, 230>>, <<1621, 1622, 220>>, <<1623, 1627, 230>>, <<1628, 1628, 220>>,
      <<1629, 1630, 230>>, <<1631, 1631, 220>>, <<1648, 1648, 35>>, <<1750, 1756, 230>>,
      <<1759, 1762, 230>>, <<1763, 1763, 220>>, <<1764, 1764, 230>>, <<1767, 1768, 230>>,
      <<1770, 1770, 220>>, <<1771, 1772, 230>>, <<1773, 1773, 220>>, <<1809, 1809, 36>>,
      <<1840, 1840, 230>>, <<1841, 1841, 220>>, <<1842, 1843, 230>>, <<1844, 1844, 220>>,
      <<1845, 1846, 230>>, <<1847, 1849, 220>>, <<1850, 1850, 230>>, <<1851, 1852, 220>>,
      <<1853, 1853, 230>>, <<1854, 1854, 220>>, <<1855, 1857, 230>>, <<1858, 1858, 220>>,
      <<1859, 1859, 230>>, <<1860, 1860, 220>>, <<1861, 1861, 230>>, <<1862, 1862, 220>>,
      <<1863, 1863, 230>>, <<1864, 1864, 220>>, <<1865, 1866, 230>>, <<2027, 2033, 230>>,
      <<2034, 2034, 220>>, <<2035, 2035, 230>>, <<2045, 2045, 220>>, <<2070, 2073, 230>>,
      <<2075, 2083, 230>>, <<2085, 2087, 230>>, <<2089, 2093, 230>>, <<2137, 2139, 220>>,
      <<2200, 2200, 230>>, <<2201, 2203, 220>>, <<2204, 2207, 230>>, <<2250, 2254, 230>>,
      <<2255, 2259, 220>>, <<2260, 2273, 230>>, <<2275, 2275, 220>>, <<2276, 2277, 230>>,
      <<2278, 2278, 220>>, <<2279, 2280, 230>>, <<2281, 2281, 220>>, <<2282, 2284, 230>>,
      <<2285, 2287, 220>>, <<2288, 2288, 27>>, <<2289, 2289, 28>>, <<2290, 2290, 29>>,
      <<2291, 2293, 230>>, <<2294, 2294, 220>>, <<2295, 2296, 230>>, <<2297, 2298, 220>>,
      <<2299, 2303, 230>>, <<2364, 2364, 7>>, <<2381, 2381, 9>>, <<2385, 2385, 230>>,
      <<2386, 2386, 220>>, <<2387, 2388, 230>>, <<2492, 2492, 7>>, <<2509, 2509, 9>>,
      <<2558, 2558, 230>>, <<2620, 2620, 7>>, <<2637, 2637, 9>>, <<2748, 2748, 7>>,
      <<2765, 2765, 9>>, <<2876, 2876, 7>>, <<2893, 2893, 9>>, <<3021, 3021, 9>>,
      <<3132, 3132, 7>>, <<3149, 3149, 9>>, <<3157, 3157, 84>>, <<3158, 3158, 91>>,
      <<3260, 3260, 7>>, <<3277, 3277, 9>>, <<3387, 3388, 9>>, <<3405, 3405, 9>>,
      <<3530, 3530, 9>>, <<3640, 3641, 103>>, <<3642, 3642, 9>>, <<3656, 3659, 107>>,
      <<3768, 3769, 118>>, <<3770, 3770, 9>>, <<3784, 3787, 122>>, <<3864, 3865, 220>>,
      <<3893, 3893, 220>>, <<3895, 3895, 220>>, <<3897, 3897, 216>>, <<3953, 3953, 129>>,
      <<3954, 3954, 130>>, <<3956, 3956, 132>>, <<3962, 3965, 130>>, <<3968, 3968, 130>>,
      <<3970, 3971, 230>>, <<3972, 3972, 9>>, <<3974, 3975, 230>>, <<4038, 4038, 220>>,
      <<4151, 4151, 7>>, <<4153, 4154, 9>>, <<4237, 4237, 220>>, <<4957, 4959, 230>>,
      <<5908, 5909, 9>>, <<5940, 5940, 9>>, <<6098, 6098, 9>>, <<6109, 6109, 230>>,
      <<6313, 6313, 228>>, <<6457, 6457, 222>>, <<6458, 6458, 230>>, <<6459, 6459, 220>>,
      <<6679, 6679, 230>>, <<6680, 6680, 220>>, <<6752, 6752, 9>>, <<6773, 6780, 230>>,
      <<6783, 6783, 220>>, <<6832, 6836, 230>>, <<6837, 6842, 220>>, <<6843, 6844, 230>>,
      <<6845, 6845, 220>>, <<6847, 6848, 220>>, <<6849, 6850, 230>>, <<6851, 6852, 220>>,
      <<6853, 6857, 230>>, <<6858, 6858, 220>>, <<6859, 6862, 230>>, <<6964, 6964, 7>>,
      <<6980, 6980, 9>>, <<7019, 7019, 230>>, <<7020, 7020, 220>>, <<7021, 7027, 230>>,
      <<7082, 7083, 9>>, <<7142, 7142, 7>>, <<7154, 7155, 9>>, <<7223, 7223, 7>>,
      <<7376, 7378, 230>>, <<7380, 7380, 1>>, <<7381, 7385, 220>>, <<7386, 7387, 230>>,
      <<7388, 7391, 220>>, <<7392, 7392, 230>>, <<7394, 7400, 1>>, <<7405, 7405, 220>>,
      <<7412, 7412, 230>>, <<7416, 7417, 230>>, <<7616, 7617, 230>>, <<7618, 7618, 220>>,
      <<7619, 7625, 230>>, <<7626, 7626, 220>>, <<7627, 7628, 230>>, <<7629, 7629, 234>>,
      <<7630, 7630, 214>>, <<7631, 7631, 220>>, <<7632, 7632, 202>>, <<7633, 7669, 230>>,
      <<7670, 7670, 232>>, <<7671, 7672, 228>>, <<7673, 7673, 220>>, <<7674, 7674, 218>>,
      <<7675, 7675, 230>>, <<7676, 7676, 233>>, <<7677, 7677, 220>>, <<7678, 7678, 230>>,
      <<7679, 7679, 220>>, <<8400, 8401, 230>>, <<8402, 8403, 1>>, <<8404, 8407, 230>>,
      <<8408, 8410, 1>>, <<8411, 8412, 230>>, <<8417, 8417, 230>>, <<8421, 8422, 1>>,
      <<8423, 8423, 230>>, <<8424, 8424, 220>>, <<8425, 8425, 230>>, <<8426, 8427, 1>>,
      <<8428, 8431, 220>>, <<8432, 8432, 230>>, <<11503, 11505, 230>>, <<11647, 11647, 9>>,
      <<11744, 11775, 230>>, <<12330, 12330, 218>>, <<12331, 12331, 228>>,
      <<12332, 12332, 232>>, <<12333, 12333, 222>>, <<12334, 12335, 224>>, <<12441, 12442, 8>>,
      <<42607, 42607, 230>>, <<42612, 42621, 230>>, <<42654, 42655, 230>>,
      <<42736, 42737, 230>>, <<43014, 43014, 9>>, <<43052, 43052, 9>>, <<43204, 43204, 9>>,
      <<43232, 43249, 230>>, <<43307, 43309, 220>>, <<43347, 43347, 9>>, <<43443, 43443, 7>>,
      <<43456, 43456, 9>>, <<43696, 43696, 230>>, <<43698, 43699, 230>>, <<43700, 43700, 220>>,
      <<43703, 43704, 230>>, <<43710, 43711, 230>>, <<43713, 43713, 230>>, <<43766, 43766, 9>>,
      <<44013, 44013, 9>>, <<64286, 64286, 26>>, <<65056, 65062, 230>>, <<65063, 65069, 220>>,
      <<65070, 65071, 230>>, <<66045, 66045, 220>>, <<66272, 66272, 220>>,
      <<66422, 66426, 230>>, <<68109, 68109, 220>>, <<68111, 68111, 230>>,
      <<68152, 68152, 230>>, <<68153, 68153, 1>>, <<68154, 68154, 220>>, <<68159, 68159, 9>>,
      <<68325, 68325, 230>>, <<68326, 68326, 220>>, <<68900, 68903, 230>>,
      <<69291, 69292, 230>>, <<69373, 69375, 220>>, <<69446, 69447, 220>>,
      <<69448, 69450, 230>>, <<69451, 69451, 220>>, <<69452, 69452, 230>>,
      <<69453, 69456, 220>>, <<69506, 69506, 230>>, <<69507, 69507, 220>>,
      <<69508, 69508, 230>>, <<69509, 69509, 220>>, <<69702, 69702, 9>>, <<69744, 69744, 9>>,
      <<69759, 69759, 9>>, <<69817, 69817, 9>>, <<69818, 69818, 7>>, <<69888, 69890, 230>>,
      <<69939, 69940, 9>>, <<70003, 70003, 7>>, <<70080, 70080, 9>>, <<70090, 70090, 7>>,
      <<70197, 70197, 9>>, <<70198, 70198, 7>>, <<70377, 70377, 7>>, <<70378, 70378, 9>>,
      <<70459, 70460, 7>>, <<70477, 70477, 9>>, <<70502, 70508, 230>>, <<70512, 70516, 230>>,
      <<70722, 70722, 9>>, <<70726, 70726, 7>>, <<70750, 70750, 230>>, <<70850, 70850, 9>>,
      <<70851, 70851, 7>>, <<71103, 71103, 9>>, <<71104, 71104, 7>>, <<71231, 71231, 9>>,
      <<71350, 71350, 9>>, <<71351, 71351, 7>>, <<71467, 71467, 9>>, <<71737, 71737, 9>>,
      <<71738, 71738, 7>>, <<71997, 71998, 9>>, <<72003, 72003, 7>>, <<72160, 72160, 9>>,
      <<72244, 72244, 9>>, <<72263, 72263, 9>>, <<72345, 72345, 9>>, <<72767, 72767, 9>>,
      <<73026, 73026, 7>>, <<73028, 73029, 9>>, <<73111, 73111, 9>>, <<73537, 73538, 9>>,
      <<92912, 92916, 1>>, <<92976, 92982, 230>>, <<94192, 94193, 6>>, <<113822, 113822, 1>>,
      <<119141, 119142, 216>>, <<119143, 119145, 1>>, <<119149, 119149, 226>>,
      <<119150, 119154, 216>>, <<119163, 119170, 220>>, <<119173, 119177, 230>>,
      <<119178, 119179, 220>>, <<119210, 119213, 230>>, <<119362, 119364, 230>>,
      <<122880, 122886, 230>>, <<122888, 122904, 230>>, <<122907, 122913, 230>>,
      <<122915, 122916, 230>>, <<122918, 122922, 230>>, <<123023, 123023, 230>>,
      <<123184, 123190, 230>>, <<123566, 123566, 230>>, <<123628, 123631, 230>>,
      <<124140, 124141, 232>>, <<124142, 124142, 220>>, <<124143, 124143, 230>>,
      <<125136, 125142, 220>>, <<125252, 125257, 230>>, <<125258, 125258, 7>> >>

\* the code points a label must not begin with, General_Category = Mark (Mn,
\* Mc, Me) in the character data of the label check (Unicode 13.0):
\* <<first, last, TRUE>>
Marks ==
    << <<768, 879, TRUE>>, <<1155, 1161, TRUE>>, <<1425, 1469, TRUE>>, <<1471, 1471, TRUE>>,
      <<1473, 1474, TRUE>>, <<1476, 1477, TRUE>>, <<1479, 1479, TRUE>>, <<1552, 1562, TRUE>>,
      <<1611, 1631, TRUE>>, <<1648, 1648, TRUE>>, <<1750, 1756, TRUE>>, <<1759, 1764, TRUE>>,
      <<1767, 1768, TRUE>>, <<1770, 1773, TRUE>>, <<1809, 1809, TRUE>>, <<1840, 1866, TRUE>>,
      <<1958, 1968, TRUE>>, <<2027, 2035, TRUE>>, <<2045, 2045, TRUE>>, <<2070, 2073, TRUE>>,
      <<2075, 2083, TRUE>>, <<2085, 2087, TRUE>>, <<2089, 2093, TRUE>>, <<2137, 2139, TRUE>>,
      <<2259, 2273, TRUE>>, <<2275, 2307, TRUE>>, <<2362, 2364, TRUE>>, <<2366, 2383, TRUE>>,
      <<2385, 2391, TRUE>>, <<2402, 2403, TRUE>>, <<2433, 2435, TRUE>>, <<2492, 2492, TRUE>>,
      <<2494, 2500, TRUE>>, <<2503, 2504, TRUE>>, <<2507, 2509, TRUE>>, <<2519, 2519, TRUE>>,
      <<2530, 2531, TRUE>>, <<2558, 2558, TRUE>>, <<2561, 2563, TRUE>>, <<2620, 2620, TRUE>>,
      <<2622, 2626, TRUE>>, <<2631, 2632, TRUE>>, <<2635, 2637, TRUE>>, <<2641, 2641, TRUE>>,
      <<2672, 2673, TRUE>>, <<2677, 2677, TRUE>>, <<2689, 2691, TRUE>>, <<2748, 2748, TRUE>>,
      <<2750, 2757, TRUE>>, <<2759, 2761, TRUE>>, <<2763, 2765, TRUE>>, <<2786, 2787, TRUE>>,
      <<2810, 2815, TRUE>>, <<2817, 2819, TRUE>>, <<2876, 2876, TRUE>>, <<2878, 2884, TRUE>>,
      <<2887, 2888, TRUE>>, <<2891, 2893, TRUE>>, <<2901, 2903, TRUE>>, <<2914, 2915, TRUE>>,
      <<2946, 2946, TRUE>>, <<3006, 3010, TRUE>>, <<3014, 3016, TRUE>>, <<3018, 3021, TRUE>>,
      <<3031, 3031, TRUE>>, <<3072, 3076, TRUE>>, <<3134, 3140, TRUE>>, <<3142, 3144, TRUE>>,
      <<3146, 3149, TRUE>>, <<3157, 3158, TRUE>>, <<3170, 3171, TRUE>>, <<3201, 3203, TRUE>>,
      <<3260, 3260, TRUE>>, <<3262, 3268, TRUE>>, <<3270, 3272, TRUE>>, <<3274, 3277, TRUE>>,
      <<3285, 3286, TRUE>>, <<3298, 3299, TRUE>>, <<3328, 3331, TRUE>>, <<3387, 3388, TRUE>>,
      <<3390, 3396, TRUE>>, <<3398, 3400, TRUE>>, <<3402, 3405, TRUE>>, <<3415, 3415, TRUE>>,
      <<3426, 3427, TRUE>>, <<3457, 3459, TRUE>>, <<3530, 3530, TRUE>>, <<3535, 3540, TRUE>>,
      <<3542, 3542, TRUE>>, <<3544, 3551, TRUE>>, <<3570, 3571, TRUE>>, <<3633, 3633, TRUE>>,
      <<3636, 3642, TRUE>>, <<3655, 3662, TRUE>>, <<3761, 3761, TRUE>>, <<3764, 3772, TRUE>>,
      <<3784, 3789, TRUE>>, <<3864, 3865, TRUE>>, <<3893, 3893, TRUE>>, <<3895, 3895, TRUE>>,
      <<3897, 3897, TRUE>>, <<3902, 3903, TRUE>>, <<3953, 3972, TRUE>>, <<3974, 3975, TRUE>>,
      <<3981, 3991, TRUE>>, <<3993, 4028, TRUE>>, <<4038, 4038, TRUE>>, <<4139, 4158, TRUE>>,
      <<4182, 4185, TRUE>>, <<4190, 4192, TRUE>>, <<4194, 4196, TRUE>>, <<4199, 4205, TRUE>>,
      <<4209, 4212, TRUE>>, <<4226, 4237, TRUE>>, <<4239, 4239, TRUE>>, <<4250, 4253, TRUE>>,
      <<4957, 4959, TRUE>>, <<5906, 5908, TRUE>>, <<5938, 5940, TRUE>>, <<5970, 5971, TRUE>>,
      <<6002, 6003, TRUE>>, <<6068, 6099, TRUE>>, <<6109, 6109, TRUE>>, <<6155, 6157, TRUE>>,
      <<6277, 6278, TRUE>>, <<6313, 6313, TRUE>>, <<6432, 6443, TRUE>>, <<6448, 6459, TRUE>>,
      <<6679, 6683, TRUE>>, <<6741, 6750, TRUE>>, <<6752, 6780, TRUE>>, <<6783, 6783, TRUE>>,
      <<6832, 6848, TRUE>>, <<6912, 6916, TRUE>>, <<6964, 6980, TRUE>>, <<7019, 7027, TRUE>>,
      <<7040, 7042, TRUE>>, <<7073, 7085, TRUE>>, <<7142, 7155, TRUE>>, <<7204, 7223, TRUE>>,
      <<7376, 7378, TRUE>>, <<7380, 7400, TRUE>>, <<7405, 7405, TRUE>>, <<7412, 7412, TRUE>>,
      <<7415, 7417, TRUE>>, <<7616, 7673, TRUE>>, <<7675, 7679, TRUE>>, <<8400, 8432, TRUE>>,
      <<11503, 11505, TRUE>>, <<11647, 11647, TRUE>>, <<11744, 11775, TRUE>>,
      <<12330, 12335, TRUE>>, <<12441, 12442, TRUE>>, <<42607, 42610, TRUE>>,
      <<42612, 42621, TRUE>>, <<42654, 42655, TRUE>>, <<42736, 42737, TRUE>>,
      <<43010, 43010, TRUE>>, <<43014, 43014, TRUE>>, <<43019, 43019, TRUE>>,
      <<43043, 43047, TRUE>>, <<43052, 43052, TRUE>>, <<43136, 43137, TRUE>>,
      <<43188, 43205, TRUE>>, <<43232, 43249, TRUE>>, <<43263, 43263, TRUE>>,
      <<43302, 43309, TRUE>>, <<43335, 43347, TRUE>>, <<43392, 43395, TRUE>>,
      <<43443, 43456, TRUE>>, <<43493, 43493, TRUE>>, <<43561, 43574, TRUE>>,
      <<43587, 43587, TRUE>>, <<43596, 43597, TRUE>>, <<43643, 43645, TRUE>>,
      <<43696, 43696, TRUE>>, <<43698, 43700, TRUE>>, <<43703, 43704, TRUE>>,
      <<43710, 43711, TRUE>>, <<43713, 43713, TRUE>>, <<43755, 43759, TRUE>>,
      <<43765, 43766, TRUE>>, <<44003, 44010, TRUE>>, <<44012, 44013, TRUE>>,
      <<64286, 64286, TRUE>>, <<65024, 65039, TRUE>>, <<65056, 65071, TRUE>>,
      <<66045, 66045, TRUE>>, <<66272, 66272, TRUE>>, <<66422, 66426, TRUE>>,
      <<68097, 68099, TRUE>>, <<68101, 68102, TRUE>>, <<68108, 68111, TRUE>>,
      <<68152, 68154, TRUE>>, <<68159, 68159, TRUE>>, <<68325, 68326, TRUE>>,
      <<68900, 68903, TRUE>>, <<69291, 69292, TRUE>>, <<69446, 69456, TRUE>>,
      <<69632, 69634, TRUE>>, <<69688, 69702, TRUE>>, <<69759, 69762, TRUE>>,
      <<69808, 69818, TRUE>>, <<69888, 69890, TRUE>>, <<69927, 69940, TRUE>>,
      <<69957, 69958, TRUE>>, <<70003, 70003, TRUE>>, <<70016, 70018, TRUE>>,
      <<70067, 70080, TRUE>>, <<70089, 70092, TRUE>>, <<70094, 70095, TRUE>>,
      <<70188, 70199, TRUE>>, <<70206, 70206, TRUE>>, <<70367, 70378, TRUE>>,
      <<70400, 70403, TRUE>>, <<70459, 70460, TRUE>>, <<70462, 70468, TRUE>>,
      <<70471, 70472, TRUE>>, <<70475, 70477, TRUE>>, <<70487, 70487, TRUE>>,
      <<70498, 70499, TRUE>>, <<70502, 70508, TRUE>>, <<70512, 70516, TRUE>>,
      <<70709, 70726, TRUE>>, <<70750, 70750, TRUE>>, <<70832, 70851, TRUE>>,
      <<71087, 71093, TRUE>>, <<71096, 71104, TRUE>>, <<71132, 71133, TRUE>>,
      <<71216, 71232, TRUE>>, <<71339, 71351, TRUE>>, <<71453, 71467, TRUE>>,
      <<71724, 71738, TRUE>>, <<71984, 71989, TRUE>>, <<71991, 71992, TRUE>>,
      <<71995, 71998, TRUE>>, <<72000, 72000, TRUE>>, <<72002, 72003, TRUE>>,
      <<72145, 72151, TRUE>>, <<72154, 72160, TRUE>>, <<72164, 72164, TRUE>>,
      <<72193, 72202, TRUE>>, <<72243, 72249, TRUE>>, <<72251, 72254, TRUE>>,
      <<72263, 72263, TRUE>>, <<72273, 72283, TRUE>>, <<72330, 72345, TRUE>>,
      <<72751, 72758, TRUE>>, <<72760, 72767, TRUE>>, <<72850, 72871, TRUE>>,
      <<72873, 72886, TRUE>>, <<73009, 73014, TRUE>>, <<73018, 73018, TRUE>>,
      <<73020, 73021, TRUE>>, <<73023, 73029, TRUE>>, <<73031, 73031, TRUE>>,
      <<73098, 73102, TRUE>>, <<73104, 73105, TRUE>>, <<73107, 73111, TRUE>>,
      <<73459, 73462, TRUE>>, <<92912, 92916, TRUE>>, <<92976, 92982, TRUE>>,
      <<94031, 94031, TRUE>>, <<94033, 94087, TRUE>>, <<94095, 94098, TRUE>>,
      <<94180, 94180, TRUE>>, <<94192, 94193, TRUE>>, <<113821, 113822, TRUE>>,
      <<119141, 119145, TRUE>>, <<119149, 119154, TRUE>>, <<119163, 119170, TRUE>>,
      <<119173, 119179, TRUE>>, <<119210, 119213, TRUE>>, <<119362, 119364, TRUE>>,
      <<121344, 121398, TRUE>>, <<121403, 121452, TRUE>>, <<121461, 121461, TRUE>>,
      <<121476, 121476, TRUE>>, <<121499, 121503, TRUE>>, <<121505, 121519, TRUE>>,
      <<122880, 122886, TRUE>>, <<122888, 122904, TRUE>>, <<122907, 122913, TRUE>>,
      <<122915, 122916, TRUE>>, <<122918, 122922, TRUE>>, <<123184, 123190, TRUE>>,
      <<123628, 123631, TRUE>>, <<125136, 125142, TRUE>>, <<125252, 125258, TRUE>>,
      <<917760, 917999, TRUE>> >>

\* the code points of Canonical_Combining_Class 9 in the character data of
\* the label check (Unicode 13.0): <<first, last, TRUE>>
Viramas ==
    << <<2381, 2381, TRUE>>, <<2509, 2509, TRUE>>, <<2637, 2637, TRUE>>, <<2765, 2765, TRUE>>,
      <<2893, 2893, TRUE>>, <<3021, 3021, TRUE>>, <<3149, 3149, TRUE>>, <<3277, 3277, TRUE>>,
      <<3387, 3388, TRUE>>, <<3405, 3405, TRUE>>, <<3530, 3530, TRUE>>, <<3642, 3642, TRUE>>,
      <<3770, 3770, TRUE>>, <<3972, 3972, TRUE>>, <<4153, 4154, TRUE>>, <<5908, 5908, TRUE>>,
      <<5940, 5940, TRUE>>, <<6098, 6098, TRUE>>, <<6752, 6752, TRUE>>, <<6980, 6980, TRUE>>,
      <<7082, 7083, TRUE>>, <<7154, 7155, TRUE>>, <<11647, 11647, TRUE>>,
      <<43014, 43014, TRUE>>, <<43052, 43052, TRUE>>, <<43204, 43204, TRUE>>,
      <<43347, 43347, TRUE>>, <<43456, 43456, TRUE>>, <<43766, 43766, TRUE>>,
      <<44013, 44013, TRUE>>, <<68159, 68159, TRUE>>, <<69702, 69702, TRUE>>,
      <<69759, 69759, TRUE>>, <<69817, 69817, TRUE>>, <<69939, 69940, TRUE>>,
      <<70080, 70080, TRUE>>, <<70197, 70197, TRUE>>, <<70378, 70378, TRUE>>,
      <<70477, 70477, TRUE>>, <<70722, 70722, TRUE>>, <<70850, 70850, TRUE>>,
      <<71103, 71103, TRUE>>, <<71231, 71231, TRUE>>, <<71350, 71350, TRUE>>,
      <<71467, 71467, TRUE>>, <<71737, 71737, TRUE>>, <<71997, 71998, TRUE>>,
      <<72160, 72160, TRUE>>, <<72244, 72244, TRUE>>, <<72263, 72263, TRUE>>,
      <<72345, 72345, TRUE>>, <<72767, 72767, TRUE>>, <<73028, 73029, TRUE>>,
      <<73111, 73111, TRUE>> >>

\* Bidi_Class where it is not L, in the character data of the label check
\* (Unicode 13.0): <<first, last, class>>; a code point that has no
\* character there has the class "NONE"
BidiClasses ==
    << <<0, 8, "BN">>, <<9, 9, "S">>, <<10, 10, "B">>, <<11, 11, "S">>, <<12, 12, "WS">>,
      <<13, 13, "B">>, <<14, 27, "BN">>, <<28, 30, "B">>, <<31, 31, "S">>, <<32, 32, "WS">>,
      <<33, 34, "ON">>, <<35, 37, "ET">>, <<38, 42, "ON">>, <<43, 43, "ES">>, <<44, 44, "CS">>,
      <<45, 45, "ES">>, <<46, 47, "CS">>, <<48, 57, "EN">>, <<58, 58, "CS">>, <<59, 64, "ON">>,
      <<91, 96, "ON">>, <<123, 126, "ON">>, <<127, 132, "BN">>, <<133, 133, "B">>,
      <<134, 159, "BN">>, <<160, 160, "CS">>, <<161, 161, "ON">>, <<162, 165, "ET">>,
      <<166, 169, "ON">>, <<171, 172, "ON">>, <<173, 173, "BN">>, <<174, 175, "ON">>,
      <<176, 177, "ET">>, <<178, 179, "EN">>, <<180, 180, "ON">>, <<182, 184, "ON">>,
      <<185, 185, "EN">>, <<187, 191, "ON">>, <<215, 215, "ON">>, <<247, 247, "ON">>,
      <<697, 698, "ON">>, <<706, 719, "ON">>, <<722, 735, "ON">>, <<741, 749, "ON">>,
      <<751, 767, "ON">>, <<768, 879, "NSM">>, <<884, 885, "ON">>, <<888, 889, "NONE">>,
      <<894, 894, "ON">>, <<896, 899, "NONE">>, <<900, 901, "ON">>, <<903, 903, "ON">>,
      <<907, 907, "NONE">>, <<909, 909, "NONE">>, <<930, 930, "NONE">>, <<1014, 1014, "ON">>,
      <<1155, 1161, "NSM">>, <<1328, 1328, "NONE">>, <<1367, 1368, "NONE">>,
      <<1418, 1418, "ON">>, <<1419, 1420, "NONE">>, <<1421, 1422, "ON">>, <<1423, 1423, "ET">>,
      <<1424, 1424, "NONE">>, <<1425, 1469, "NSM">>, <<1470, 1470, "R">>, <<1471, 1471, "NSM">>,
      <<1472, 1472, "R">>, <<1473, 1474, "NSM">>, <<1475, 1475, "R">>, <<1476, 1477, "NSM">>,
      <<1478, 1478, "R">>, <<1479, 1479, "NSM">>, <<1480, 1487, "NONE">>, <<1488, 1514, "R">>,
      <<1515, 1518, "NONE">>, <<1519, 1524, "R">>, <<1525, 1535, "NONE">>, <<1536, 1541, "AN">>,
      <<1542, 1543, "ON">>, <<1544, 1544, "AL">>, <<1545, 1546, "ET">>, <<1547, 1547, "AL">>,
      <<1548, 1548, "CS">>, <<1549, 1549, "AL">>, <<1550, 1551, "ON">>, <<1552, 1562, "NSM">>,
      <<1563, 1564, "AL">>, <<1565, 1565, "NONE">>, <<1566, 1610, "AL">>, <<1611, 1631, "NSM">>,
      <<1632, 1641, "AN">>, <<1642, 1642, "ET">>, <<1643, 1644, "AN">>, <<1645, 1647, "AL">>,
      <<1648, 1648, "NSM">>, <<1649, 1749, "AL">>, <<1750, 1756, "NSM">>, <<1757, 1757, "AN">>,
      <<1758, 1758, "ON">>, <<1759, 1764, "NSM">>, <<1765, 1766, "AL">>, <<1767, 1768, "NSM">>,
      <<1769, 1769, "ON">>, <<1770, 1773, "NSM">>, <<1774, 1775, "AL">>, <<1776, 1785, "EN">>,
      <<1786, 1805, "AL">>, <<1806, 1806, "NONE">>, <<1807, 1808, "AL">>, <<1809, 1809, "NSM">>,
      <<1810, 1839, "AL">>, <<1840, 1866, "NSM">>, <<1867, 1868, "NONE">>, <<1869, 1957, "AL">>,
      <<1958, 1968, "NSM">>, <<1969, 1969, "AL">>, <<1970, 1983, "NONE">>, <<1984, 2026, "R">>,
      <<2027, 2035, "NSM">>, <<2036, 2037, "R">>, <<2038, 2041, "ON">>, <<2042, 2042, "R">>,
      <<2043, 2044, "NONE">>, <<2045, 2045, "NSM">>, <<2046, 2069, "R">>, <<2070, 2073, "NSM">>,
      <<2074, 2074, "R">>, <<2075, 2083, "NSM">>, <<2084, 2084, "R">>, <<2085, 2087, "NSM">>,
      <<2088, 2088, "R">>, <<2089, 2093, "NSM">>, <<2094, 2095, "NONE">>, <<2096, 2110, "R">>,
      <<2111, 2111, "NONE">>, <<2112, 2136, "R">>, <<2137, 2139, "NSM">>,
      <<2140, 2141, "NONE">>, <<2142, 2142, "R">>, <<2143, 2143, "NONE">>, <<2144, 2154, "AL">>,
      <<2155, 2207, "NONE">>, <<2208, 2228, "AL">>, <<2229, 2229, "NONE">>,
      <<2230, 2247, "AL">>, <<2248, 2258, "NONE">>, <<2259, 2273, "NSM">>, <<2274, 2274, "AN">>,
      <<2275, 2306, "NSM">>, <<2362, 2362, "NSM">>, <<2364, 2364, "NSM">>,
      <<2369, 2376, "NSM">>, <<2381, 2381, "NSM">>, <<2385, 2391, "NSM">>,
      <<2402, 2403, "NSM">>, <<2433, 2433, "NSM">>, <<2436, 2436, "NONE">>,
      <<2445, 2446, "NONE">>, <<2449, 2450, "NONE">>, <<2473, 2473, "NONE">>,
      <<2481, 2481, "NONE">>, <<2483, 2485, "NONE">>, <<2490, 2491, "NONE">>,
      <<2492, 2492, "NSM">>, <<2497, 2500, "NSM">>, <<2501, 2502, "NONE">>,
      <<2505, 2506, "NONE">>, <<2509, 2509, "NSM">>, <<2511, 2518, "NONE">>,
      <<2520, 2523, "NONE">>, <<2526, 2526, "NONE">>, <<2530, 2531, "NSM">>,
      <<2532, 2533, "NONE">>, <<2546, 2547, "ET">>, <<2555, 2555, "ET">>, <<2558, 2558, "NSM">>,
      <<2559, 2560, "NONE">>, <<2561, 2562, "NSM">>, <<2564, 2564, "NONE">>,
      <<2571, 2574, "NONE">>, <<2577, 2578, "NONE">>, <<2601, 2601, "NONE">>,
      <<2609, 2609, "NONE">>, <<2612, 2612, "NONE">>, <<2615, 2615, "NONE">>,
      <<2618, 2619, "NONE">>, <<2620, 2620, "NSM">>, <<2621, 2621, "NONE">>,
      <<2625, 2626, "NSM">>, <<2627, 2630, "NONE">>, <<2631, 2632, "NSM">>,
      <<2633, 2634, "NONE">>, <<2635, 2637, "NSM">>, <<2638, 2640, "NONE">>,
      <<2641, 2641, "NSM">>, <<2642, 2648, "NONE">>, <<2653, 2653, "NONE">>,
      <<2655, 2661, "NONE">>, <<2672, 2673, "NSM">>, <<2677, 2677, "NSM">>,
      <<2679, 2688, "NONE">>, <<2689, 2690, "NSM">>, <<2692, 2692, "NONE">>,
      <<2702, 2702, "NONE">>, <<2706, 2706, "NONE">>, <<2729, 2729, "NONE">>,
      <<2737, 2737, "NONE">>, <<2740, 2740, "NONE">>, <<2746, 2747, "NONE">>,
      <<2748, 2748, "NSM">>, <<2753, 2757, "NSM">>, <<2758, 2758, "NONE">>,
      <<2759, 2760, "NSM">>, <<2762, 2762, "NONE">>, <<2765, 2765, "NSM">>,
      <<2766, 2767, "NONE">>, <<2769, 2783, "NONE">>, <<2786, 2787, "NSM">>,
      <<2788, 2789, "NONE">>, <<2801, 2801, "ET">>, <<2802, 2808, "NONE">>,
      <<2810, 2815, "NSM">>, <<2816, 2816, "NONE">>, <<2817, 2817, "NSM">>,
      <<2820, 2820, "NONE">>, <<2829, 2830, "NONE">>, <<2833, 2834, "NONE">>,
      <<2857, 2857, "NONE">>, <<2865, 2865, "NONE">>, <<2868, 2868, "NONE">>,
      <<2874, 2875, "NONE">>, <<2876, 2876, "NSM">>, <<2879, 2879, "NSM">>,
      <<2881, 2884, "NSM">>, <<2885, 2886, "NONE">>, <<2889, 2890, "NONE">>,
      <<2893, 2893, "NSM">>, <<2894, 2900, "NONE">>, <<2901, 2902, "NSM">>,
      <<2904, 2907, "NONE">>, <<2910, 2910, "NONE">>, <<2914, 2915, "NSM">>,
      <<2916, 2917, "NONE">>, <<2936, 2945, "NONE">>, <<2946, 2946, "NSM">>,
      <<2948, 2948, "NONE">>, <<2955, 2957, "NONE">>, <<2961, 2961, "NONE">>,
      <<2966, 2968, "NONE">>, <<2971, 2971, "NONE">>, <<2973, 2973, "NONE">>,
      <<2976, 2978, "NONE">>, <<2981, 2983, "NONE">>, <<2987, 2989, "NONE">>,
      <<3002, 3005, "NONE">>, <<3008, 3008, "NSM">>, <<3011, 3013, "NONE">>,
      <<3017, 3017, "NONE">>, <<3021, 3021, "NSM">>, <<3022, 3023, "NONE">>,
      <<3025, 3030, "NONE">>, <<3032, 3045, "NONE">>, <<3059, 3064, "ON">>,
      <<3065, 3065, "ET">>, <<3066, 3066, "ON">>, <<3067, 3071, "NONE">>, <<3072, 3072, "NSM">>,
      <<3076, 3076, "NSM">>, <<3085, 3085, "NONE">>, <<3089, 3089, "NONE">>,
      <<3113, 3113, "NONE">>, <<3130, 3132, "NONE">>, <<3134, 3136, "NSM">>,
      <<3141, 3141, "NONE">>, <<3142, 3144, "NSM">>, <<3145, 3145, "NONE">>,
      <<3146, 3149, "NSM">>, <<3150, 3156, "NONE">>, <<3157, 3158, "NSM">>,
      <<3159, 3159, "NONE">>, <<3163, 3167, "NONE">>, <<3170, 3171, "NSM">>,
      <<3172, 3173, "NONE">>, <<3184, 3190, "NONE">>, <<3192, 3198, "ON">>,
      <<3201, 3201, "NSM">>, <<3213, 3213, "NONE">>, <<3217, 3217, "NONE">>,
      <<3241, 3241, "NONE">>, <<3252, 3252, "NONE">>, <<3258, 3259, "NONE">>,
      <<3260, 3260, "NSM">>, <<3269, 3269, "NONE">>, <<3273, 3273, "NONE">>,
      <<3276, 3277, "NSM">>, <<3278, 3284, "NONE">>, <<3287, 3293, "NONE">>,
      <<3295, 3295, "NONE">>, <<3298, 3299, "NSM">>, <<3300, 3301, "NONE">>,
      <<3312, 3312, "NONE">>, <<3315, 3327, "NONE">>, <<3328, 3329, "NSM">>,
      <<3341, 3341, "NONE">>, <<3345, 3345, "NONE">>, <<3387, 3388, "NSM">>,
      <<3393, 3396, "NSM">>, <<3397, 3397, "NONE">>, <<3401, 3401, "NONE">>,
      <<3405, 3405, "NSM">>, <<3408, 3411, "NONE">>, <<3426, 3427, "NSM">>,
      <<3428, 3429, "NONE">>, <<3456, 3456, "NONE">>, <<3457, 3457, "NSM">>,
      <<3460, 3460, "NONE">>, <<3479, 3481, "NONE">>, <<3506, 3506, "NONE">>,
      <<3516, 3516, "NONE">>, <<3518, 3519, "NONE">>, <<3527, 3529, "NONE">>,
      <<3530, 3530, "NSM">>, <<3531, 3534, "NONE">>, <<3538, 3540, "NSM">>,
      <<3541, 3541, "NONE">>, <<3542, 3542, "NSM">>, <<3543, 3543, "NONE">>,
      <<3552, 3557, "NONE">>, <<3568, 3569, "NONE">>, <<3573, 3584, "NONE">>,
      <<3633, 3633, "NSM">>, <<3636, 3642, "NSM">>, <<3643, 3646, "NONE">>,
      <<3647, 3647, "ET">>, <<3655, 3662, "NSM">>, <<3676, 3712, "NONE">>,
      <<3715, 3715, "NONE">>, <<3717, 3717, "NONE">>, <<3723, 3723, "NONE">>,
      <<3748, 3748, "NONE">>, <<3750, 3750, "NONE">>, <<3761, 3761, "NSM">>,
      <<3764, 3772, "NSM">>, <<3774, 3775, "NONE">>, <<3781, 3781, "NONE">>,
      <<3783, 3783, "NONE">>, <<3784, 3789, "NSM">>, <<3790, 3791, "NONE">>,
      <<3802, 3803, "NONE">>, <<3808, 3839, "NONE">>, <<3864, 3865, "NSM">>,
      <<3893, 3893, "NSM">>, <<3895, 3895, "NSM">>, <<3897, 3897, "NSM">>, <<3898, 3901, "ON">>,
      <<3912, 3912, "NONE">>, <<3949, 3952, "NONE">>, <<3953, 3966, "NSM">>,
      <<3968, 3972, "NSM">>, <<3974, 3975, "NSM">>, <<3981, 3991, "NSM">>,
      <<3992, 3992, "NONE">>, <<3993, 4028, "NSM">>, <<4029, 4029, "NONE">>,
      <<4038, 4038, "NSM">>, <<4045, 4045, "NONE">>, <<4059, 4095, "NONE">>,
      <<4141, 4144, "NSM">>, <<4146, 4151, "NSM">>, <<4153, 4154, "NSM">>,
      <<4157, 4158, "NSM">>, <<4184, 4185, "NSM">>, <<4190, 4192, "NSM">>,
      <<4209, 4212, "NSM">>, <<4226, 4226, "NSM">>, <<4229, 4230, "NSM">>,
      <<4237, 4237, "NSM">>, <<4253, 4253, "NSM">>, <<4294, 4294, "NONE">>,
      <<4296, 4300, "NONE">>, <<4302, 4303, "NONE">>, <<4681, 4681, "NONE">>,
      <<4686, 4687, "NONE">>, <<4695, 4695, "NONE">>, <<4697, 4697, "NONE">>,
      <<4702, 4703, "NONE">>, <<4745, 4745, "NONE">>, <<4750, 4751, "NONE">>,
      <<4785, 4785, "NONE">>, <<4790, 4791, "NONE">>, <<4799, 4799, "NONE">>,
      <<4801, 4801, "NONE">>, <<4806, 4807, "NONE">>, <<4823, 4823, "NONE">>,
      <<4881, 4881, "NONE">>, <<4886, 4887, "NONE">>, <<4955, 4956, "NONE">>,
      <<4957, 4959, "NSM">>, <<4989, 4991, "NONE">>, <<5008, 5017, "ON">>,
      <<5018, 5023, "NONE">>, <<5110, 5111, "NONE">>, <<5118, 5119, "NONE">>,
      <<5120, 5120, "ON">>, <<5760, 5760, "WS">>, <<5787, 5788, "ON">>, <<5789, 5791, "NONE">>,
      <<5881, 5887, "NONE">>, <<5901, 5901, "NONE">>, <<5906, 5908, "NSM">>,
      <<5909, 5919, "NONE">>, <<5938, 5940, "NSM">>, <<5943, 5951, "NONE">>,
      <<5970, 5971, "NSM">>, <<5972, 5983, "NONE">>, <<5997, 5997, "NONE">>,
      <<6001, 6001, "NONE">>, <<6002, 6003, "NSM">>, <<6004, 6015, "NONE">>,
      <<6068, 6069, "NSM">>, <<6071, 6077, "NSM">>, <<6086, 6086, "NSM">>,
      <<6089, 6099, "NSM">>, <<6107, 6107, "ET">>, <<6109, 6109, "NSM">>,
      <<6110, 6111, "NONE">>, <<6122, 6127, "NONE">>, <<6128, 6137, "ON">>,
      <<6138, 6143, "NONE">>, <<6144, 6154, "ON">>, <<6155, 6157, "NSM">>, <<6158, 6158, "BN">>,
      <<6159, 6159, "NONE">>, <<6170, 6175, "NONE">>, <<6265, 6271, "NONE">>,
      <<6277, 6278, "NSM">>, <<6313, 6313, "NSM">>, <<6315, 6319, "NONE">>,
      <<6390, 6399, "NONE">>, <<6431, 6431, "NONE">>, <<6432, 6434, "NSM">>,
      <<6439, 6440, "NSM">>, <<6444, 6447, "NONE">>, <<6450, 6450, "NSM">>,
      <<6457, 6459, "NSM">>, <<6460, 6463, "NONE">>, <<6464, 6464, "ON">>,
      <<6465, 6467, "NONE">>, <<6468, 6469, "ON">>, <<6510, 6511, "NONE">>,
      <<6517, 6527, "NONE">>, <<6572, 6575, "NONE">>, <<6602, 6607, "NONE">>,
      <<6619, 6621, "NONE">>, <<6622, 6655, "ON">>, <<6679, 6680, "NSM">>,
      <<6683, 6683, "NSM">>, <<6684, 6685, "NONE">>, <<6742, 6742, "NSM">>,
      <<6744, 6750, "NSM">>, <<6751, 6751, "NONE">>, <<6752, 6752, "NSM">>,
      <<6754, 6754, "NSM">>, <<6757, 6764, "NSM">>, <<6771, 6780, "NSM">>,
      <<6781, 6782, "NONE">>, <<6783, 6783, "NSM">>, <<6794, 6799, "NONE">>,
      <<6810, 6815, "NONE">>, <<6830, 6831, "NONE">>, <<6832, 6848, "NSM">>,
      <<6849, 6911, "NONE">>, <<6912, 6915, "NSM">>, <<6964, 6964, "NSM">>,
      <<6966, 6970, "NSM">>, <<6972, 6972, "NSM">>, <<6978, 6978, "NSM">>,
      <<6988, 6991, "NONE">>, <<7019, 7027, "NSM">>, <<7037, 7039, "NONE">>,
      <<7040, 7041, "NSM">>, <<7074, 7077, "NSM">>, <<7080, 7081, "NSM">>,
      <<7083, 7085, "NSM">>, <<7142, 7142, "NSM">>, <<7144, 7145, "NSM">>,
      <<7149, 7149, "NSM">>, <<7151, 7153, "NSM">>, <<7156, 7163, "NONE">>,
      <<7212, 7219, "NSM">>, <<7222, 7223, "NSM">>, <<7224, 7226, "NONE">>,
      <<7242, 7244, "NONE">>, <<7305, 7311, "NONE">>, <<7355, 7356, "NONE">>,
      <<7368, 7375, "NONE">>, <<7376, 7378, "NSM">>, <<7380, 7392, "NSM">>,
      <<7394, 7400, "NSM">>, <<7405, 7405, "NSM">>, <<7412, 7412, "NSM">>,
      <<7416, 7417, "NSM">>, <<7419, 7423, "NONE">>, <<7616, 7673, "NSM">>,
      <<7674, 7674, "NONE">>, <<7675, 7679, "NSM">>, <<7958, 7959, "NONE">>,
      <<7966, 7967, "NONE">>, <<8006, 8007, "NONE">>, <<8014, 8015, "NONE">>,
      <<8024, 8024, "NONE">>, <<8026, 8026, "NONE">>, <<8028, 8028, "NONE">>,
      <<8030, 8030, "NONE">>, <<8062, 8063, "NONE">>, <<8117, 8117, "NONE">>,
      <<8125, 8125, "ON">>, <<8127, 8129, "ON">>, <<8133, 8133, "NONE">>, <<8141, 8143, "ON">>,
      <<8148, 8149, "NONE">>, <<8156, 8156, "NONE">>, <<8157, 8159, "ON">>,
      <<8173, 8175, "ON">>, <<8176, 8177, "NONE">>, <<8181, 8181, "NONE">>,
      <<8189, 8190, "ON">>, <<8191, 8191, "NONE">>, <<8192, 8202, "WS">>, <<8203, 8205, "BN">>,
      <<8207, 8207, "R">>, <<8208, 8231, "ON">>, <<8232, 8232, "WS">>, <<8233, 8233, "B">>,
      <<8234, 8234, "LRE">>, <<8235, 8235, "RLE">>, <<8236, 8236, "PDF">>,
      <<8237, 8237, "LRO">>, <<8238, 8238, "RLO">>, <<8239, 8239, "CS">>, <<8240, 8244, "ET">>,
      <<8245, 8259, "ON">>, <<8260, 8260, "CS">>, <<8261, 8286, "ON">>, <<8287, 8287, "WS">>,
      <<8288, 8292, "BN">>, <<8293, 8293, "NONE">>, <<8294, 8294, "LRI">>,
      <<8295, 8295, "RLI">>, <<8296, 8296, "FSI">>, <<8297, 8297, "PDI">>, <<8298, 8303, "BN">>,
      <<8304, 8304, "EN">>, <<8306, 8307, "NONE">>, <<8308, 8313, "EN">>, <<8314, 8315, "ES">>,
      <<8316, 8318, "ON">>, <<8320, 8329, "EN">>, <<8330, 8331, "ES">>, <<8332, 8334, "ON">>,
      <<8335, 8335, "NONE">>, <<8349, 8351, "NONE">>, <<8352, 8383, "ET">>,
      <<8384, 8399, "NONE">>, <<8400, 8432, "NSM">>, <<8433, 8447, "NONE">>,
      <<8448, 8449, "ON">>, <<8451, 8454, "ON">>, <<8456, 8457, "ON">>, <<8468, 8468, "ON">>,
      <<8470, 8472, "ON">>, <<8478, 8483, "ON">>, <<8485, 8485, "ON">>, <<8487, 8487, "ON">>,
      <<8489, 8489, "ON">>, <<8494, 8494, "ET">>, <<8506, 8507, "ON">>, <<8512, 8516, "ON">>,
      <<8522, 8525, "ON">>, <<8528, 8543, "ON">>, <<8585, 8587, "ON">>, <<8588, 8591, "NONE">>,
      <<8592, 8721, "ON">>, <<8722, 8722, "ES">>, <<8723, 8723, "ET">>, <<8724, 9013, "ON">>,
      <<9083, 9108, "ON">>, <<9110, 9254, "ON">>, <<9255, 9279, "NONE">>, <<9280, 9290, "ON">>,
      <<9291, 9311, "NONE">>, <<9312, 9351, "ON">>, <<9352, 9371, "EN">>, <<9450, 9899, "ON">>,
      <<9901, 10239, "ON">>, <<10496, 11123, "ON">>, <<11124, 11125, "NONE">>,
      <<11126, 11157, "ON">>, <<11158, 11158, "NONE">>, <<11159, 11263, "ON">>,
      <<11311, 11311, "NONE">>, <<11359, 11359, "NONE">>, <<11493, 11498, "ON">>,
      <<11503, 11505, "NSM">>, <<11508, 11512, "NONE">>, <<11513, 11519, "ON">>,
      <<11558, 11558, "NONE">>, <<11560, 11564, "NONE">>, <<11566, 11567, "NONE">>,
      <<11624, 11630, "NONE">>, <<11633, 11646, "NONE">>, <<11647, 11647, "NSM">>,
      <<11671, 11679, "NONE">>, <<11687, 11687, "NONE">>, <<11695, 11695, "NONE">>,
      <<11703, 11703, "NONE">>, <<11711, 11711, "NONE">>, <<11719, 11719, "NONE">>,
      <<11727, 11727, "NONE">>, <<11735, 11735, "NONE">>, <<11743, 11743, "NONE">>,
      <<11744, 11775, "NSM">>, <<11776, 11858, "ON">>, <<11859, 11903, "NONE">>,
      <<11904, 11929, "ON">>, <<11930, 11930, "NONE">>, <<11931, 12019, "ON">>,
      <<12020, 12031, "NONE">>, <<12032, 12245, "ON">>, <<12246, 12271, "NONE">>,
      <<12272, 12283, "ON">>, <<12284, 12287, "NONE">>, <<12288, 12288, "WS">>,
      <<12289, 12292, "ON">>, <<12296, 12320, "ON">>, <<12330, 12333, "NSM">>,
      <<12336, 12336, "ON">>, <<12342, 12343, "ON">>, <<12349, 12351, "ON">>,
      <<12352, 12352, "NONE">>, <<12439, 12440, "NONE">>, <<12441, 12442, "NSM">>,
      <<12443, 12444, "ON">>, <<12448, 12448, "ON">>, <<12539, 12539, "ON">>,
      <<12544, 12548, "NONE">>, <<12592, 12592, "NONE">>, <<12687, 12687, "NONE">>,
      <<12736, 12771, "ON">>, <<12772, 12783, "NONE">>, <<12829, 12830, "ON">>,
      <<12831, 12831, "NONE">>, <<12880, 12895, "ON">>, <<12924, 12926, "ON">>,
      <<12977, 12991, "ON">>, <<13004, 13007, "ON">>, <<13175, 13178, "ON">>,
      <<13278, 13279, "ON">>, <<13311, 13311, "ON">>, <<19904, 19967, "ON">>,
      <<40957, 40959, "NONE">>, <<42125, 42127, "NONE">>, <<42128, 42182, "ON">>,
      <<42183, 42191, "NONE">>, <<42509, 42511, "ON">>, <<42540, 42559, "NONE">>,
      <<42607, 42610, "NSM">>, <<42611, 42611, "ON">>, <<42612, 42621, "NSM">>,
      <<42622, 42623, "ON">>, <<42654, 42655, "NSM">>, <<42736, 42737, "NSM">>,
      <<42744, 42751, "NONE">>, <<42752, 42785, "ON">>, <<42888, 42888, "ON">>,
      <<42944, 42945, "NONE">>, <<42955, 42996, "NONE">>, <<43010, 43010, "NSM">>,
      <<43014, 43014, "NSM">>, <<43019, 43019, "NSM">>, <<43045, 43046, "NSM">>,
      <<43048, 43051, "ON">>, <<43052, 43052, "NSM">>, <<43053, 43055, "NONE">>,
      <<43064, 43065, "ET">>, <<43066, 43071, "NONE">>, <<43124, 43127, "ON">>,
      <<43128, 43135, "NONE">>, <<43204, 43205, "NSM">>, <<43206, 43213, "NONE">>,
      <<43226, 43231, "NONE">>, <<43232, 43249, "NSM">>, <<43263, 43263, "NSM">>,
      <<43302, 43309, "NSM">>, <<43335, 43345, "NSM">>, <<43348, 43358, "NONE">>,
      <<43389, 43391, "NONE">>, <<43392, 43394, "NSM">>, <<43443, 43443, "NSM">>,
      <<43446, 43449, "NSM">>, <<43452, 43453, "NSM">>, <<43470, 43470, "NONE">>,
      <<43482, 43485, "NONE">>, <<43493, 43493, "NSM">>, <<43519, 43519, "NONE">>,
      <<43561, 43566, "NSM">>, <<43569, 43570, "NSM">>, <<43573, 43574, "NSM">>,
      <<43575, 43583, "NONE">>, <<43587, 43587, "NSM">>, <<43596, 43596, "NSM">>,
      <<43598, 43599, "NONE">>, <<43610, 43611, "NONE">>, <<43644, 43644, "NSM">>,
      <<43696, 43696, "NSM">>, <<43698, 43700, "NSM">>, <<43703, 43704, "NSM">>,
      <<43710, 43711, "NSM">>, <<43713, 43713, "NSM">>, <<43715, 43738, "NONE">>,
      <<43756, 43757, "NSM">>, <<43766, 43766, "NSM">>, <<43767, 43776, "NONE">>,
      <<43783, 43784, "NONE">>, <<43791, 43792, "NONE">>, <<43799, 43807, "NONE">>,
      <<43815, 43815, "NONE">>, <<43823, 43823, "NONE">>, <<43882, 43883, "ON">>,
      <<43884, 43887, "NONE">>, <<44005, 44005, "NSM">>, <<44008, 44008, "NSM">>,
      <<44013, 44013, "NSM">>, <<44014, 44015, "NONE">>, <<44026, 44031, "NONE">>,
      <<55204, 55215, "NONE">>, <<55239, 55242, "NONE">>, <<55292, 55295, "NONE">>,
      <<64110, 64111, "NONE">>, <<64218, 64255, "NONE">>, <<64263, 64274, "NONE">>,
      <<64280, 64284, "NONE">>, <<64285, 64285, "R">>, <<64286, 64286, "NSM">>,
      <<64287, 64296, "R">>, <<64297, 64297, "ES">>, <<64298, 64310, "R">>,
      <<64311, 64311, "NONE">>, <<64312, 64316, "R">>, <<64317, 64317, "NONE">>,
      <<64318, 64318, "R">>, <<64319, 64319, "NONE">>, <<64320, 64321, "R">>,
      <<64322, 64322, "NONE">>, <<64323, 64324, "R">>, <<64325, 64325, "NONE">>,
      <<64326, 64335, "R">>, <<64336, 64449, "AL">>, <<64450, 64466, "NONE">>,
      <<64467, 64829, "AL">>, <<64830, 64831, "ON">>, <<64832, 64847, "NONE">>,
      <<64848, 64911, "AL">>, <<64912, 64913, "NONE">>, <<64914, 64967, "AL">>,
      <<64968, 65007, "NONE">>, <<65008, 65020, "AL">>, <<65021, 65021, "ON">>,
      <<65022, 65023, "NONE">>, <<65024, 65039, "NSM">>, <<65040, 65049, "ON">>,
      <<65050, 65055, "NONE">>, <<65056, 65071, "NSM">>, <<65072, 65103, "ON">>,
      <<65104, 65104, "CS">>, <<65105, 65105, "ON">>, <<65106, 65106, "CS">>,
      <<65107, 65107, "NONE">>, <<65108, 65108, "ON">>, <<65109, 65109, "CS">>,
      <<65110, 65118, "ON">>, <<65119, 65119, "ET">>, <<65120, 65121, "ON">>,
      <<65122, 65123, "ES">>, <<65124, 65126, "ON">>, <<65127, 65127, "NONE">>,
      <<65128, 65128, "ON">>, <<65129, 65130, "ET">>, <<65131, 65131, "ON">>,
      <<65132, 65135, "NONE">>, <<65136, 65140, "AL">>, <<65141, 65141, "NONE">>,
      <<65142, 65276, "AL">>, <<65277, 65278, "NONE">>, <<65279, 65279, "BN">>,
      <<65280, 65280, "NONE">>, <<65281, 65282, "ON">>, <<65283, 65285, "ET">>,
      <<65286, 65290, "ON">>, <<65291, 65291, "ES">>, <<65292, 65292, "CS">>,
      <<65293, 65293, "ES">>, <<65294, 65295, "CS">>, <<65296, 65305, "EN">>,
      <<65306, 65306, "CS">>, <<65307, 65312, "ON">>, <<65339, 65344, "ON">>,
      <<65371, 65381, "ON">>, <<65471, 65473, "NONE">>, <<65480, 65481, "NONE">>,
      <<65488, 65489, "NONE">>, <<65496, 65497, "NONE">>, <<65501, 65503, "NONE">>,
      <<65504, 65505, "ET">>, <<65506, 65508, "ON">>, <<65509, 65510, "ET">>,
      <<65511, 65511, "NONE">>, <<65512, 65518, "ON">>, <<65519, 65528, "NONE">>,
      <<65529, 65533, "ON">>, <<65534, 65535, "NONE">>, <<65548, 65548, "NONE">>,
      <<65575, 65575, "NONE">>, <<65595, 65595, "NONE">>, <<65598, 65598, "NONE">>,
      <<65614, 65615, "NONE">>, <<65630, 65663, "NONE">>, <<65787, 65791, "NONE">>,
      <<65793, 65793, "ON">>, <<65795, 65798, "NONE">>, <<65844, 65846, "NONE">>,
      <<65856, 65932, "ON">>, <<65935, 65935, "NONE">>, <<65936, 65948, "ON">>,
      <<65949, 65951, "NONE">>, <<65952, 65952, "ON">>, <<65953, 65999, "NONE">>,
      <<66045, 66045, "NSM">>, <<66046, 66175, "NONE">>, <<66205, 66207, "NONE">>,
      <<66257, 66271, "NONE">>, <<66272, 66272, "NSM">>, <<66273, 66299, "EN">>,
      <<66300, 66303, "NONE">>, <<66340, 66348, "NONE">>, <<66379, 66383, "NONE">>,
      <<66422, 66426, "NSM">>, <<66427, 66431, "NONE">>, <<66462, 66462, "NONE">>,
      <<66500, 66503, "NONE">>, <<66518, 66559, "NONE">>, <<66718, 66719, "NONE">>,
      <<66730, 66735, "NONE">>, <<66772, 66775, "NONE">>, <<66812, 66815, "NONE">>,
      <<66856, 66863, "NONE">>, <<66916, 66926, "NONE">>, <<66928, 67071, "NONE">>,
      <<67383, 67391, "NONE">>, <<67414, 67423, "NONE">>, <<67432, 67583, "NONE">>,
      <<67584, 67589, "R">>, <<67590, 67591, "NONE">>, <<67592, 67592, "R">>,
      <<67593, 67593, "NONE">>, <<67594, 67637, "R">>, <<67638, 67638, "NONE">>,
      <<67639, 67640, "R">>, <<67641, 67643, "NONE">>, <<67644, 67644, "R">>,
      <<67645, 67646, "NONE">>, <<67647, 67669, "R">>, <<67670, 67670, "NONE">>,
      <<67671, 67742, "R">>, <<67743, 67750, "NONE">>, <<67751, 67759, "R">>,
      <<67760, 67807, "NONE">>, <<67808, 67826, "R">>, <<67827, 67827, "NONE">>,
      <<67828, 67829, "R">>, <<67830, 67834, "NONE">>, <<67835, 67867, "R">>,
      <<67868, 67870, "NONE">>, <<67871, 67871, "ON">>, <<67872, 67897, "R">>,
      <<67898, 67902, "NONE">>, <<67903, 67903, "R">>, <<67904, 67967, "NONE">>,
      <<67968, 68023, "R">>, <<68024, 68027, "NONE">>, <<68028, 68047, "R">>,
      <<68048, 68049, "NONE">>, <<68050, 68096, "R">>, <<68097, 68099, "NSM">>,
      <<68100, 68100, "NONE">>, <<68101, 68102, "NSM">>, <<68103, 68107, "NONE">>,
      <<68108, 68111, "NSM">>, <<68112, 68115, "R">>, <<68116, 68116, "NONE">>,
      <<68117, 68119, "R">>, <<68120, 68120, "NONE">>, <<68121, 68149, "R">>,
      <<68150, 68151, "NONE">>, <<68152, 68154, "NSM">>, <<68155, 68158, "NONE">>,
      <<68159, 68159, "NSM">>, <<68160, 68168, "R">>, <<68169, 68175, "NONE">>,
      <<68176, 68184, "R">>, <<68185, 68191, "NONE">>, <<68192, 68255, "R">>,
      <<68256, 68287, "NONE">>, <<68288, 68324, "R">>, <<68325, 68326, "NSM">>,
      <<68327, 68330, "NONE">>, <<68331, 68342, "R">>, <<68343, 68351, "NONE">>,
      <<68352, 68405, "R">>, <<68406, 68408, "NONE">>, <<68409, 68415, "ON">>,
      <<68416, 68437, "R">>, <<68438, 68439, "NONE">>, <<68440, 68466, "R">>,
      <<68467, 68471, "NONE">>, <<68472, 68497, "R">>, <<68498, 68504, "NONE">>,
      <<68505, 68508, "R">>, <<68509, 68520, "NONE">>, <<68521, 68527, "R">>,
      <<68528, 68607, "NONE">>, <<68608, 68680, "R">>, <<68681, 68735, "NONE">>,
      <<68736, 68786, "R">>, <<68787, 68799, "NONE">>, <<68800, 68850, "R">>,
      <<68851, 68857, "NONE">>, <<68858, 68863, "R">>, <<68864, 68899, "AL">>,
      <<68900, 68903, "NSM">>, <<68904, 68911, "NONE">>, <<68912, 68921, "AN">>,
      <<68922, 69215, "NONE">>, <<69216, 69246, "AN">>, <<69247, 69247, "NONE">>,
      <<69248, 69289, "R">>, <<69290, 69290, "NONE">>, <<69291, 69292, "NSM">>,
      <<69293, 69293, "R">>, <<69294, 69295, "NONE">>, <<69296, 69297, "R">>,
      <<69298, 69375, "NONE">>, <<69376, 69415, "R">>, <<69416, 69423, "NONE">>,
      <<69424, 69445, "AL">>, <<69446, 69456, "NSM">>, <<69457, 69465, "AL">>,
      <<69466, 69551, "NONE">>, <<69552, 69579, "R">>, <<69580, 69599, "NONE">>,
      <<69600, 69622, "R">>, <<69623, 69631, "NONE">>, <<69633, 69633, "NSM">>,
      <<69688, 69702, "NSM">>, <<69710, 69713, "NONE">>, <<69714, 69733, "ON">>,
      <<69744, 69758, "NONE">>, <<69759, 69761, "NSM">>, <<69811, 69814, "NSM">>,
      <<69817, 69818, "NSM">>, <<69826, 69836, "NONE">>, <<69838, 69839, "NONE">>,
      <<69865, 69871, "NONE">>, <<69882, 69887, "NONE">>, <<69888, 69890, "NSM">>,
      <<69927, 69931, "NSM">>, <<69933, 69940, "NSM">>, <<69941, 69941, "NONE">>,
      <<69960, 69967, "NONE">>, <<70003, 70003, "NSM">>, <<70007, 70015, "NONE">>,
      <<70016, 70017, "NSM">>, <<70070, 70078, "NSM">>, <<70089, 70092, "NSM">>,
      <<70095, 70095, "NSM">>, <<70112, 70112, "NONE">>, <<70133, 70143, "NONE">>,
      <<70162, 70162, "NONE">>, <<70191, 70193, "NSM">>, <<70196, 70196, "NSM">>,
      <<70198, 70199, "NSM">>, <<70206, 70206, "NSM">>, <<70207, 70271, "NONE">>,
      <<70279, 70279, "NONE">>, <<70281, 70281, "NONE">>, <<70286, 70286, "NONE">>,
      <<70302, 70302, "NONE">>, <<70314, 70319, "NONE">>, <<70367, 70367, "NSM">>,
      <<70371, 70378, "NSM">>, <<70379, 70383, "NONE">>, <<70394, 70399, "NONE">>,
      <<70400, 70401, "NSM">>, <<70404, 70404, "NONE">>, <<70413, 70414, "NONE">>,
      <<70417, 70418, "NONE">>, <<70441, 70441, "NONE">>, <<70449, 70449, "NONE">>,
      <<70452, 70452, "NONE">>, <<70458, 70458, "NONE">>, <<70459, 70460, "NSM">>,
      <<70464, 70464, "NSM">>, <<70469, 70470, "NONE">>, <<70473, 70474, "NONE">>,
      <<70478, 70479, "NONE">>, <<70481, 70486, "NONE">>, <<70488, 70492, "NONE">>,
      <<70500, 70501, "NONE">>, <<70502, 70508, "NSM">>, <<70509, 70511, "NONE">>,
      <<70512, 70516, "NSM">>, <<70517, 70655, "NONE">>, <<70712, 70719, "NSM">>,
      <<70722, 70724, "NSM">>, <<70726, 70726, "NSM">>, <<70748, 70748, "NONE">>,
      <<70750, 70750, "NSM">>, <<70754, 70783, "NONE">>, <<70835, 70840, "NSM">>,
      <<70842, 70842, "NSM">>, <<70847, 70848, "NSM">>, <<70850, 70851, "NSM">>,
      <<70856, 70863, "NONE">>, <<70874, 71039, "NONE">>, <<71090, 71093, "NSM">>,
      <<71094, 71095, "NONE">>, <<71100, 71101, "NSM">>, <<71103, 71104, "NSM">>,
      <<71132, 71133, "NSM">>, <<71134, 71167, "NONE">>, <<71219, 71226, "NSM">>,
      <<71229, 71229, "NSM">>, <<71231, 71232, "NSM">>, <<71237, 71247, "NONE">>,
      <<71258, 71263, "NONE">>, <<71264, 71276, "ON">>, <<71277, 71295, "NONE">>,
      <<71339, 71339, "NSM">>, <<71341, 71341, "NSM">>, <<71344, 71349, "NSM">>,
      <<71351, 71351, "NSM">>, <<71353, 71359, "NONE">>, <<71370, 71423, "NONE">>,
      <<71451, 71452, "NONE">>, <<71453, 71455, "NSM">>, <<71458, 71461, "NSM">>,
      <<71463, 71467, "NSM">>, <<71468, 71471, "NONE">>, <<71488, 71679, "NONE">>,
      <<71727, 71735, "NSM">>, <<71737, 71738, "NSM">>, <<71740, 71839, "NONE">>,
      <<71923, 71934, "NONE">>, <<71943, 71944, "NONE">>, <<71946, 71947, "NONE">>,
      <<71956, 71956, "NONE">>, <<71959, 71959, "NONE">>, <<71990, 71990, "NONE">>,
      <<71993, 71994, "NONE">>, <<71995, 71996, "NSM">>, <<71998, 71998, "NSM">>,
      <<72003, 72003, "NSM">>, <<72007, 72015, "NONE">>, <<72026, 72095, "NONE">>,
      <<72104, 72105, "NONE">>, <<72148, 72151, "NSM">>, <<72152, 72153, "NONE">>,
      <<72154, 72155, "NSM">>, <<72160, 72160, "NSM">>, <<72165, 72191, "NONE">>,
      <<72193, 72198, "NSM">>, <<72201, 72202, "NSM">>, <<72243, 72248, "NSM">>,
      <<72251, 72254, "NSM">>, <<72263, 72263, "NSM">>, <<72264, 72271, "NONE">>,
      <<72273, 72278, "NSM">>, <<72281, 72283, "NSM">>, <<72330, 72342, "NSM">>,
      <<72344, 72345, "NSM">>, <<72355, 72383, "NONE">>, <<72441, 72703, "NONE">>,
      <<72713, 72713, "NONE">>, <<72752, 72758, "NSM">>, <<72759, 72759, "NONE">>,
      <<72760, 72765, "NSM">>, <<72774, 72783, "NONE">>, <<72813, 72815, "NONE">>,
      <<72848, 72849, "NONE">>, <<72850, 72871, "NSM">>, <<72872, 72872, "NONE">>,
      <<72874, 72880, "NSM">>, <<72882, 72883, "NSM">>, <<72885, 72886, "NSM">>,
      <<72887, 72959, "NONE">>, <<72967, 72967, "NONE">>, <<72970, 72970, "NONE">>,
      <<73009, 73014, "NSM">>, <<73015, 73017, "NONE">>, <<73018, 73018, "NSM">>,
      <<73019, 73019, "NONE">>, <<73020, 73021, "NSM">>, <<73022, 73022, "NONE">>,
      <<73023, 73029, "NSM">>, <<73031, 73031, "NSM">>, <<73032, 73039, "NONE">>,
      <<73050, 73055, "NONE">>, <<73062, 73062, "NONE">>, <<73065, 73065, "NONE">>,
      <<73103, 73103, "NONE">>, <<73104, 73105, "NSM">>, <<73106, 73106, "NONE">>,
      <<73109, 73109, "NSM">>, <<73111, 73111, "NSM">>, <<73113, 73119, "NONE">>,
      <<73130, 73439, "NONE">>, <<73459, 73460, "NSM">>, <<73465, 73647, "NONE">>,
      <<73649, 73663, "NONE">>, <<73685, 73692, "ON">>, <<73693, 73696, "ET">>,
      <<73697, 73713, "ON">>, <<73714, 73726, "NONE">>, <<74650, 74751, "NONE">>,
      <<74863, 74863, "NONE">>, <<74869, 74879, "NONE">>, <<75076, 77823, "NONE">>,
      <<78895, 78895, "NONE">>, <<78905, 82943, "NONE">>, <<83527, 92159, "NONE">>,
      <<92729, 92735, "NONE">>, <<92767, 92767, "NONE">>, <<92778, 92781, "NONE">>,
      <<92784, 92879, "NONE">>, <<92910, 92911, "NONE">>, <<92912, 92916, "NSM">>,
      <<92918, 92927, "NONE">>, <<92976, 92982, "NSM">>, <<92998, 93007, "NONE">>,
      <<93018, 93018, "NONE">>, <<93026, 93026, "NONE">>, <<93048, 93052, "NONE">>,
      <<93072, 93759, "NONE">>, <<93851, 93951, "NONE">>, <<94027, 94030, "NONE">>,
      <<94031, 94031, "NSM">>, <<94088, 94094, "NONE">>, <<94095, 94098, "NSM">>,
      <<94112, 94175, "NONE">>, <<94178, 94178, "ON">>, <<94180, 94180, "NSM">>,
      <<94181, 94191, "NONE">>, <<94194, 94207, "NONE">>, <<100344, 100351, "NONE">>,
      <<101590, 101631, "NONE">>, <<101641, 110591, "NONE">>, <<110879, 110927, "NONE">>,
      <<110931, 110947, "NONE">>, <<110952, 110959, "NONE">>, <<111356, 113663, "NONE">>,
      <<113771, 113775, "NONE">>, <<113789, 113791, "NONE">>, <<113801, 113807, "NONE">>,
      <<113818, 113819, "NONE">>, <<113821, 113822, "NSM">>, <<113824, 113827, "BN">>,
      <<113828, 118783, "NONE">>, <<119030, 119039, "NONE">>, <<119079, 119080, "NONE">>,
      <<119143, 119145, "NSM">>, <<119155, 119162, "BN">>, <<119163, 119170, "NSM">>,
      <<119173, 119179, "NSM">>, <<119210, 119213, "NSM">>, <<119273, 119295, "NONE">>,
      <<119296, 119361, "ON">>, <<119362, 119364, "NSM">>, <<119365, 119365, "ON">>,
      <<119366, 119519, "NONE">>, <<119540, 119551, "NONE">>, <<119552, 119638, "ON">>,
      <<119639, 119647, "NONE">>, <<119673, 119807, "NONE">>, <<119893, 119893, "NONE">>,
      <<119965, 119965, "NONE">>, <<119968, 119969, "NONE">>, <<119971, 119972, "NONE">>,
      <<119975, 119976, "NONE">>, <<119981, 119981, "NONE">>, <<119994, 119994, "NONE">>,
      <<119996, 119996, "NONE">>, <<120004, 120004, "NONE">>, <<120070, 120070, "NONE">>,
      <<120075, 120076, "NONE">>, <<120085, 120085, "NONE">>, <<120093, 120093, "NONE">>,
      <<120122, 120122, "NONE">>, <<120127, 120127, "NONE">>, <<120133, 120133, "NONE">>,
      <<120135, 120137, "NONE">>, <<120145, 120145, "NONE">>, <<120486, 120487, "NONE">>,
      <<120539, 120539, "ON">>, <<120597, 120597, "ON">>, <<120655, 120655, "ON">>,
      <<120713, 120713, "ON">>, <<120771, 120771, "ON">>, <<120780, 120781, "NONE">>,
      <<120782, 120831, "EN">>, <<121344, 121398, "NSM">>, <<121403, 121452, "NSM">>,
      <<121461, 121461, "NSM">>, <<121476, 121476, "NSM">>, <<121484, 121498, "NONE">>,
      <<121499, 121503, "NSM">>, <<121504, 121504, "NONE">>, <<121505, 121519, "NSM">>,
      <<121520, 122879, "NONE">>, <<122880, 122886, "NSM">>, <<122887, 122887, "NONE">>,
      <<122888, 122904, "NSM">>, <<122905, 122906, "NONE">>, <<122907, 122913, "NSM">>,
      <<122914, 122914, "NONE">>, <<122915, 122916, "NSM">>, <<122917, 122917, "NONE">>,
      <<122918, 122922, "NSM">>, <<122923, 123135, "NONE">>, <<123181, 123183, "NONE">>,
      <<123184, 123190, "NSM">>, <<123198, 123199, "NONE">>, <<123210, 123213, "NONE">>,
      <<123216, 123583, "NONE">>, <<123628, 123631, "NSM">>, <<123642, 123646, "NONE">>,
      <<123647, 123647, "ET">>, <<123648, 124927, "NONE">>, <<124928, 125124, "R">>,
      <<125125, 125126, "NONE">>, <<125127, 125135, "R">>, <<125136, 125142, "NSM">>,
      <<125143, 125183, "NONE">>, <<125184, 125251, "R">>, <<125252, 125258, "NSM">>,
      <<125259, 125259, "R">>, <<125260, 125263, "NONE">>, <<125264, 125273, "R">>,
      <<125274, 125277, "NONE">>, <<125278, 125279, "R">>, <<125280, 126064, "NONE">>,
      <<126065, 126132, "AL">>, <<126133, 126208, "NONE">>, <<126209, 126269, "AL">>,
      <<126270, 126463, "NONE">>, <<126464, 126467, "AL">>, <<126468, 126468, "NONE">>,
      <<126469, 126495, "AL">>, <<126496, 126496, "NONE">>, <<126497, 126498, "AL">>,
      <<126499, 126499, "NONE">>, <<126500, 126500, "AL">>, <<126501, 126502, "NONE">>,
      <<126503, 126503, "AL">>, <<126504, 126504, "NONE">>, <<126505, 126514, "AL">>,
      <<126515, 126515, "NONE">>, <<126516, 126519, "AL">>, <<126520, 126520, "NONE">>,
      <<126521, 126521, "AL">>, <<126522, 126522, "NONE">>, <<126523, 126523, "AL">>,
      <<126524, 126529, "NONE">>, <<126530, 126530, "AL">>, <<126531, 126534, "NONE">>,
      <<126535, 126535, "AL">>, <<126536, 126536, "NONE">>, <<126537, 126537, "AL">>,
      <<126538, 126538, "NONE">>, <<126539, 126539, "AL">>, <<126540, 126540, "NONE">>,
      <<126541, 126543, "AL">>, <<126544, 126544, "NONE">>, <<126545, 126546, "AL">>,
      <<126547, 126547, "NONE">>, <<126548, 126548, "AL">>, <<126549, 126550, "NONE">>,
      <<126551, 126551, "AL">>, <<126552, 126552, "NONE">>, <<126553, 126553, "AL">>,
      <<126554, 126554, "NONE">>, <<126555, 126555, "AL">>, <<126556, 126556, "NONE">>,
      <<126557, 126557, "AL">>, <<126558, 126558, "NONE">>, <<126559, 126559, "AL">>,
      <<126560, 126560, "NONE">>, <<126561, 126562, "AL">>, <<126563, 126563, "NONE">>,
      <<126564, 126564, "AL">>, <<126565, 126566, "NONE">>, <<126567, 126570, "AL">>,
      <<126571, 126571, "NONE">>, <<126572, 126578, "AL">>, <<126579, 126579, "NONE">>,
      <<126580, 126583, "AL">>, <<126584, 126584, "NONE">>, <<126585, 126588, "AL">>,
      <<126589, 126589, "NONE">>, <<126590, 126590, "AL">>, <<126591, 126591, "NONE">>,
      <<126592, 126601, "AL">>, <<126602, 126602, "NONE">>, <<126603, 126619, "AL">>,
      <<126620, 126624, "NONE">>, <<126625, 126627, "AL">>, <<126628, 126628, "NONE">>,
      <<126629, 126633, "AL">>, <<126634, 126634, "NONE">>, <<126635, 126651, "AL">>,
      <<126652, 126703, "NONE">>, <<126704, 126705, "ON">>, <<126706, 126975, "NONE">>,
      <<126976, 127019, "ON">>, <<127020, 127023, "NONE">>, <<127024, 127123, "ON">>,
      <<127124, 127135, "NONE">>, <<127136, 127150, "ON">>, <<127151, 127152, "NONE">>,
      <<127153, 127167, "ON">>, <<127168, 127168, "NONE">>, <<127169, 127183, "ON">>,
      <<127184, 127184, "NONE">>, <<127185, 127221, "ON">>, <<127222, 127231, "NONE">>,
      <<127232, 127242, "EN">>, <<127243, 127247, "ON">>, <<127279, 127279, "ON">>,
      <<127338, 127343, "ON">>, <<127405, 127405, "ON">>, <<127406, 127461, "NONE">>,
      <<127491, 127503, "NONE">>, <<127548, 127551, "NONE">>, <<127561, 127567, "NONE">>,
      <<127570, 127583, "NONE">>, <<127584, 127589, "ON">>, <<127590, 127743, "NONE">>,
      <<127744, 128727, "ON">>, <<128728, 128735, "NONE">>, <<128736, 128748, "ON">>,
      <<128749, 128751, "NONE">>, <<128752, 128764, "ON">>, <<128765, 128767, "NONE">>,
      <<128768, 128883, "ON">>, <<128884, 128895, "NONE">>, <<128896, 128984, "ON">>,
      <<128985, 128991, "NONE">>, <<128992, 129003, "ON">>, <<129004, 129023, "NONE">>,
      <<129024, 129035, "ON">>, <<129036, 129039, "NONE">>, <<129040, 129095, "ON">>,
      <<129096, 129103, "NONE">>, <<129104, 129113, "ON">>, <<129114, 129119, "NONE">>,
      <<129120, 129159, "ON">>, <<129160, 129167, "NONE">>, <<129168, 129197, "ON">>,
      <<129198, 129199, "NONE">>, <<129200, 129201, "ON">>, <<129202, 129279, "NONE">>,
      <<129280, 129400, "ON">>, <<129401, 129401, "NONE">>, <<129402, 129483, "ON">>,
      <<129484, 129484, "NONE">>, <<129485, 129619, "ON">>, <<129620, 129631, "NONE">>,
      <<129632, 129645, "ON">>, <<129646, 129647, "NONE">>, <<129648, 129652, "ON">>,
      <<129653, 129655, "NONE">>, <<129656, 129658, "ON">>, <<129659, 129663, "NONE">>,
      <<129664, 129670, "ON">>, <<129671, 129679, "NONE">>, <<129680, 129704, "ON">>,
      <<129705, 129711, "NONE">>, <<129712, 129718, "ON">>, <<129719, 129727, "NONE">>,
      <<129728, 129730, "ON">>, <<129731, 129743, "NONE">>, <<129744, 129750, "ON">>,
      <<129751, 129791, "NONE">>, <<129792, 129938, "ON">>, <<129939, 129939, "NONE">>,
      <<129940, 129994, "ON">>, <<129995, 130031, "NONE">>, <<130032, 130041, "EN">>,
      <<130042, 131071, "NONE">>, <<173790, 173823, "NONE">>, <<177973, 177983, "NONE">>,
      <<178206, 178207, "NONE">>, <<183970, 183983, "NONE">>, <<191457, 194559, "NONE">>,
      <<195102, 196607, "NONE">>, <<201547, 917504, "NONE">>, <<917505, 917505, "BN">>,
      <<917506, 917535, "NONE">>, <<917536, 917631, "BN">>, <<917632, 917759, "NONE">>,
      <<917760, 917999, "NSM">>, <<918000, 983039, "NONE">>, <<1048574, 1048575, "NONE">>,
      <<1114110, 1114111, "NONE">> >>

\* the code points the label check lists as dual-joining (D), left-joining
\* (L) and right-joining (R): <<first, last, type>>; the lists stop at
\* Unicode 6.1 and have nothing between U+0767 and U+084F
JoiningTypes ==
    << <<1568, 1568, "D">>, <<1570, 1573, "R">>, <<1574, 1574, "D">>, <<1575, 1575, "R">>,
      <<1576, 1576, "D">>, <<1577, 1577, "R">>, <<1578, 1582, "D">>, <<1583, 1586, "R">>,
      <<1587, 1599, "D">>, <<1601, 1607, "D">>, <<1608, 1608, "R">>, <<1609, 1610, "D">>,
      <<1646, 1647, "D">>, <<1649, 1651, "R">>, <<1653, 1655, "R">>, <<1656, 1671, "D">>,
      <<1672, 1689, "R">>, <<1690, 1727, "D">>, <<1728, 1728, "R">>, <<1729, 1730, "D">>,
      <<1731, 1739, "R">>, <<1740, 1740, "D">>, <<1741, 1741, "R">>, <<1742, 1742, "D">>,
      <<1743, 1743, "R">>, <<1744, 1745, "D">>, <<1746, 1747, "R">>, <<1749, 1749, "R">>,
      <<1774, 1775, "R">>, <<1786, 1788, "D">>, <<1791, 1791, "D">>, <<1808, 1808, "R">>,
      <<1810, 1812, "D">>, <<1813, 1817, "R">>, <<1818, 1821, "D">>, <<1822, 1822, "R">>,
      <<1823, 1831, "D">>, <<1832, 1832, "R">>, <<1833, 1833, "D">>, <<1834, 1834, "R">>,
      <<1835, 1835, "D">>, <<1836, 1836, "R">>, <<1837, 1838, "D">>, <<1839, 1839, "R">>,
      <<1869, 1869, "R">>, <<1870, 1880, "D">>, <<1881, 1883, "R">>, <<1884, 1894, "D">>,
      <<2128, 2131, "D">>, <<2132, 2132, "R">>, <<2133, 2133, "D">>, <<2208, 2208, "D">>,
      <<2210, 2217, "D">>, <<2218, 2220, "R">>, <<6151, 6151, "D">>, <<6176, 6263, "D">>,
      <<6279, 6312, "D">>, <<6314, 6314, "D">>, <<43072, 43121, "D">>, <<43122, 43122, "L">> >>

\* the full canonical decomposition of the code points that have one, Hangul
\* syllables apart: <<code point, code point, decomposition>>
Decompositions ==
    << <<192, 192, <<65, 768>>>>, <<193, 193, <<65, 769>>>>, <<194, 194, <<65, 770>>>>,
      <<195, 195, <<65, 771>>>>, <<196, 196, <<65, 776>>>>, <<197, 197, <<65, 778>>>>,
      <<199, 199, <<67, 807>>>>, <<200, 200, <<69, 768>>>>, <<201, 201, <<69, 769>>>>,
      <<202, 202, <<69, 770>>>>, <<203, 203, <<69, 776>>>>, <<204, 204, <<73, 768>>>>,
      <<205, 205, <<73, 769>>>>, <<206, 206, <<73, 770>>>>, <<207, 207, <<73, 776>>>>,
      <<209, 209, <<78, 771>>>>, <<210, 210, <<79, 768>>>>, <<211, 211, <<79, 769>>>>,
      <<212, 212, <<79, 770>>>>, <<213, 213, <<79, 771>>>>, <<214, 214, <<79, 776>>>>,
      <<217, 217, <<85, 768>>>>, <<218, 218, <<85, 769>>>>, <<219, 219, <<85, 770>>>>,
      <<220, 220, <<85, 776>>>>, <<221, 221, <<89, 769>>>>, <<224, 224, <<97, 768>>>>,
      <<225, 225, <<97, 769>>>>, <<226, 226, <<97, 770>>>>, <<227, 227, <<97, 771>>>>,
      <<228, 228, <<97, 776>>>>, <<229, 229, <<97, 778>>>>, <<231, 231, <<99, 807>>>>,
      <<232, 232, <<101, 768>>>>, <<233, 233, <<101, 769>>>>, <<234, 234, <<101, 770>>>>,
      <<235, 235, <<101, 776>>>>, <<236, 236, <<105, 768>>>>, <<237, 237, <<105, 769>>>>,
      <<238, 238, <<105, 770>>>>, <<239, 239, <<105, 776>>>>, <<241, 241, <<110, 771>>>>,
      <<242, 242, <<111, 768>>>>, <<243, 243, <<111, 769>>>>, <<244, 244, <<111, 770>>>>,
      <<245, 245, <<111, 771>>>>, <<246, 246, <<111, 776>>>>, <<249, 249, <<117, 768>>>>,
      <<250, 250, <<117, 769>>>>, <<251, 251, <<117, 770>>>>, <<252, 252, <<117, 776>>>>,
      <<253, 253, <<121, 769>>>>, <<255, 255, <<121, 776>>>>, <<256, 256, <<65, 772>>>>,
      <<257, 257, <<97, 772>>>>, <<258, 258, <<65, 774>>>>, <<259, 259, <<97, 774>>>>,
      <<260, 260, <<65, 808>>>>, <<261, 261, <<97, 808>>>>, <<262, 262, <<67, 769>>>>,
      <<263, 263, <<99, 769>>>>, <<264, 264, <<67, 770>>>>, <<265, 265, <<99, 770>>>>,
      <<266, 266, <<67, 775>>>>, <<267, 267, <<99, 775>>>>, <<268, 268, <<67, 780>>>>,
      <<269, 269, <<99, 780>>>>, <<270, 270, <<68, 780>>>>, <<271, 271, <<100, 780>>>>,
      <<274, 274, <<69, 772>>>>, <<275, 275, <<101, 772>>>>, <<276, 276, <<69, 774>>>>,
      <<277, 277, <<101, 774>>>>, <<278, 278, <<69, 775>>>>, <<279, 279, <<101, 775>>>>,
      <<280, 280, <<69, 808>>>>, <<281, 281, <<101, 808>>>>, <<282, 282, <<69, 780>>>>,
      <<283, 283, <<101, 780>>>>, <<284, 284, <<71, 770>>>>, <<285, 285, <<103, 770>>>>,
      <<286, 286, <<71, 774>>>>, <<287, 287, <<103, 774>>>>, <<288, 288, <<71, 775>>>>,
      <<289, 289, <<103, 775>>>>, <<290, 290, <<71, 807>>>>, <<291, 291, <<103, 807>>>>,
      <<292, 292, <<72, 770>>>>, <<293, 293, <<104, 770>>>>, <<296, 296, <<73, 771>>>>,
      <<297, 297, <<105, 771>>>>, <<298, 298, <<73, 772>>>>, <<299, 299, <<105, 772>>>>,
      <<300, 300, <<73, 774>>>>, <<301, 301, <<105, 774>>>>, <<302, 302, <<73, 808>>>>,
      <<303, 303, <<105, 808>>>>, <<304, 304, <<73, 775>>>>, <<308, 308, <<74, 770>>>>,
      <<309, 309, <<106, 770>>>>, <<310, 310, <<75, 807>>>>, <<311, 311, <<107, 807>>>>,
      <<313, 313, <<76, 769>>>>, <<314, 314, <<108, 769>>>>, <<315, 315, <<76, 807>>>>,
      <<316, 316, <<108, 807>>>>, <<317, 317, <<76, 780>>>>, <<318, 318, <<108, 780>>>>,
      <<323, 323, <<78, 769>>>>, <<324, 324, <<110, 769>>>>, <<325, 325, <<78, 807>>>>,
      <<326, 326, <<110, 807>>>>, <<327, 327, <<78, 780>>>>, <<328, 328, <<110, 780>>>>,
      <<332, 332, <<79, 772>>>>, <<333, 333, <<111, 772>>>>, <<334, 334, <<79, 774>>>>,
      <<335, 335, <<111, 774>>>>, <<336, 336, <<79, 779>>>>, <<337, 337, <<111, 779>>>>,
      <<340, 340, <<82, 769>>>>, <<341, 341, <<114, 769>>>>, <<342, 342, <<82, 807>>>>,
      <<343, 343, <<114, 807>>>>, <<344, 344, <<82, 780>>>>, <<345, 345, <<114, 780>>>>,
      <<346, 346, <<83, 769>>>>, <<347, 347, <<115, 769>>>>, <<348, 348, <<83, 770>>>>,
      <<349, 349, <<115, 770>>>>, <<350, 350, <<83, 807>>>>, <<351, 351, <<115, 807>>>>,
      <<352, 352, <<83, 780>>>>, <<353, 353, <<115, 780>>>>, <<354, 354, <<84, 807>>>>,
      <<355, 355, <<116, 807>>>>, <<356, 356, <<84, 780>>>>, <<357, 357, <<116, 780>>>>,
      <<360, 360, <<85, 771>>>>, <<361, 361, <<117, 771>>>>, <<362, 362, <<85, 772>>>>,
      <<363, 363, <<117, 772>>>>, <<364, 364, <<85, 774>>>>, <<365, 365, <<117, 774>>>>,
      <<366, 366, <<85, 778>>>>, <<367, 367, <<117, 778>>>>, <<368, 368, <<85, 779>>>>,
      <<369, 369, <<117, 779>>>>, <<370, 370, <<85, 808>>>>, <<371, 371, <<117, 808>>>>,
      <<372, 372, <<87, 770>>>>, <<373, 373, <<119, 770>>>>, <<374, 374, <<89, 770>>>>,
      <<375, 375, <<121, 770>>>>, <<376, 376, <<89, 776>>>>, <<377, 377, <<90, 769>>>>,
      <<378, 378, <<122, 769>>>>, <<379, 379, <<90, 775>>>>, <<380, 380, <<122, 775>>>>,
      <<381, 381, <<90, 780>>>>, <<382, 382, <<122, 780>>>>, <<416, 416, <<79, 795>>>>,
      <<417, 417, <<111, 795>>>>, <<431, 431, <<85, 795>>>>, <<432, 432, <<117, 795>>>>,
      <<461, 461, <<65, 780>>>>, <<462, 462, <<97, 780>>>>, <<463, 463, <<73, 780>>>>,
      <<464, 464, <<105, 780>>>>, <<465, 465, <<79, 780>>>>, <<466, 466, <<111, 780>>>>,
      <<467, 467, <<85, 780>>>>, <<468, 468, <<117, 780>>>>, <<469, 469, <<85, 776, 772>>>>,
      <<470, 470, <<117, 776, 772>>>>, <<471, 471, <<85, 776, 769>>>>,
      <<472, 472, <<117, 776, 769>>>>, <<473, 473, <<85, 776, 780>>>>,
      <<474, 474, <<117, 776, 780>>>>, <<475, 475, <<85, 776, 768>>>>,
      <<476, 476, <<117, 776, 768>>>>, <<478, 478, <<65, 776, 772>>>>,
      <<479, 479, <<97, 776, 772>>>>, <<480, 480, <<65, 775, 772>>>>,
      <<481, 481, <<97, 775, 772>>>>, <<482, 482, <<198, 772>>>>, <<483, 483, <<230, 772>>>>,
      <<486, 486, <<71, 780>>>>, <<487, 487, <<103, 780>>>>, <<488, 488, <<75, 780>>>>,
      <<489, 489, <<107, 780>>>>, <<490, 490, <<79, 808>>>>, <<491, 491, <<111, 808>>>>,
      <<492, 492, <<79, 808, 772>>>>, <<493, 493, <<111, 808, 772>>>>,
      <<494, 494, <<439, 780>>>>, <<495, 495, <<658, 780>>>>, <<496, 496, <<106, 780>>>>,
      <<500, 500, <<71, 769>>>>, <<501, 501, <<103, 769>>>>, <<504, 504, <<78, 768>>>>,
      <<505, 505, <<110, 768>>>>, <<506, 506, <<65, 778, 769>>>>,
      <<507, 507, <<97, 778, 769>>>>, <<508, 508, <<198, 769>>>>, <<509, 509, <<230, 769>>>>,
      <<510, 510, <<216, 769>>>>, <<511, 511, <<248, 769>>>>, <<512, 512, <<65, 783>>>>,
      <<513, 513, <<97, 783>>>>, <<514, 514, <<65, 785>>>>, <<515, 515, <<97, 785>>>>,
      <<516, 516, <<69, 783>>>>, <<517, 517, <<101, 783>>>>, <<518, 518, <<69, 785>>>>,
      <<519, 519, <<101, 785>>>>, <<520, 520, <<73, 783>>>>, <<521, 521, <<105, 783>>>>,
      <<522, 522, <<73, 785>>>>, <<523, 523, <<105, 785>>>>, <<524, 524, <<79, 783>>>>,
      <<525, 525, <<111, 783>>>>, <<526, 526, <<79, 785>>>>, <<527, 527, <<111, 785>>>>,
      <<528, 528, <<82, 783>>>>, <<529, 529, <<114, 783>>>>, <<530, 530, <<82, 785>>>>,
      <<531, 531, <<114, 785>>>>, <<532, 532, <<85, 783>>>>, <<533, 533, <<117, 783>>>>,
      <<534, 534, <<85, 785>>>>, <<535, 535, <<117, 785>>>>, <<536, 536, <<83, 806>>>>,
      <<537, 537, <<115, 806>>>>, <<538, 538, <<84, 806>>>>, <<539, 539, <<116, 806>>>>,
      <<542, 542, <<72, 780>>>>, <<543, 543, <<104, 780>>>>, <<550, 550, <<65, 775>>>>,
      <<551, 551, <<97, 775>>>>, <<552, 552, <<69, 807>>>>, <<553, 553, <<101, 807>>>>,
      <<554, 554, <<79, 776, 772>>>>, <<555, 555, <<111, 776, 772>>>>,
      <<556, 556, <<79, 771, 772>>>>, <<557, 557, <<111, 771, 772>>>>,
      <<558, 558, <<79, 775>>>>, <<559, 559, <<111, 775>>>>, <<560, 560, <<79, 775, 772>>>>,
      <<561, 561, <<111, 775, 772>>>>, <<562, 562, <<89, 772>>>>, <<563, 563, <<121, 772>>>>,
      <<832, 832, <<768>>>>, <<833, 833, <<769>>>>, <<835, 835, <<787>>>>,
      <<836, 836, <<776, 769>>>>, <<884, 884, <<697>>>>, <<894, 894, <<59>>>>,
      <<901, 901, <<168, 769>>>>, <<902, 902, <<913, 769>>>>, <<903, 903, <<183>>>>,
      <<904, 904, <<917, 769>>>>, <<905, 905, <<919, 769>>>>, <<906, 906, <<921, 769>>>>,
      <<908, 908, <<927, 769>>>>, <<910, 910, <<933, 769>>>>, <<911, 911, <<937, 769>>>>,
      <<912, 912, <<953, 776, 769>>>>, <<938, 938, <<921, 776>>>>, <<939, 939, <<933, 776>>>>,
      <<940, 940, <<945, 769>>>>, <<941, 941, <<949, 769>>>>, <<942, 942, <<951, 769>>>>,
      <<943, 943, <<953, 769>>>>, <<944, 944, <<965, 776, 769>>>>, <<970, 970, <<953, 776>>>>,
      <<971, 971, <<965, 776>>>>, <<972, 972, <<959, 769>>>>, <<973, 973, <<965, 769>>>>,
      <<974, 974, <<969, 769>>>>, <<979, 979, <<978, 769>>>>, <<980, 980, <<978, 776>>>>,
      <<1024, 1024, <<1045, 768>>>>, <<1025, 1025, <<1045, 776>>>>,
      <<1027, 1027, <<1043, 769>>>>, <<1031, 1031, <<1030, 776>>>>,
      <<1036, 1036, <<1050, 769>>>>, <<1037, 1037, <<1048, 768>>>>,
      <<1038, 1038, <<1059, 774>>>>, <<1049, 1049, <<1048, 774>>>>,
      <<1081, 1081, <<1080, 774>>>>, <<1104, 1104, <<1077, 768>>>>,
      <<1105, 1105, <<1077, 776>>>>, <<1107, 1107, <<1075, 769>>>>,
      <<1111, 1111, <<1110, 776>>>>, <<1116, 1116, <<1082, 769>>>>,
      <<1117, 1117, <<1080, 768>>>>, <<1118, 1118, <<1091, 774>>>>,
      <<1142, 1142, <<1140, 783>>>>, <<1143, 1143, <<1141, 783>>>>,
      <<1217, 1217, <<1046, 774>>>>, <<1218, 1218, <<1078, 774>>>>,
      <<1232, 1232, <<1040, 774>>>>, <<1233, 1233, <<1072, 774>>>>,
      <<1234, 1234, <<1040, 776>>>>, <<1235, 1235, <<1072, 776>>>>,
      <<1238, 1238, <<1045, 774>>>>, <<1239, 1239, <<1077, 774>>>>,
      <<1242, 1242, <<1240, 776>>>>, <<1243, 1243, <<1241, 776>>>>,
      <<1244, 1244, <<1046, 776>>>>, <<1245, 1245, <<1078, 776>>>>,
      <<1246, 1246, <<1047, 776>>>>, <<1247, 1247, <<1079, 776>>>>,
      <<1250, 1250, <<1048, 772>>>>, <<1251, 1251, <<1080, 772>>>>,
      <<1252, 1252, <<1048, 776>>>>, <<1253, 1253, <<1080, 776>>>>,
      <<1254, 1254, <<1054, 776>>>>, <<1255, 1255, <<1086, 776>>>>,
      <<1258, 1258, <<1256, 776>>>>, <<1259, 1259, <<1257, 776>>>>,
      <<1260, 1260, <<1069, 776>>>>, <<1261, 1261, <<1101, 776>>>>,
      <<1262, 1262, <<1059, 772>>>>, <<1263, 1263, <<1091, 772>>>>,
      <<1264, 1264, <<1059, 776>>>>, <<1265, 1265, <<1091, 776>>>>,
      <<1266, 1266, <<1059, 779>>>>, <<1267, 1267, <<1091, 779>>>>,
      <<1268, 1268, <<1063, 776>>>>, <<1269, 1269, <<1095, 776>>>>,
      <<1272, 1272, <<1067, 776>>>>, <<1273, 1273, <<1099, 776>>>>,
      <<1570, 1570, <<1575, 1619>>>>, <<1571, 1571, <<1575, 1620>>>>,
      <<1572, 1572, <<1608, 1620>>>>, <<1573, 1573, <<1575, 1621>>>>,
      <<1574, 1574, <<1610, 1620>>>>, <<1728, 1728, <<1749, 1620>>>>,
      <<1730, 1730, <<1729, 1620>>>>, <<1747, 1747, <<1746, 1620>>>>,
      <<2345, 2345, <<2344, 2364>>>>, <<2353, 2353, <<2352, 2364>>>>,
      <<2356, 2356, <<2355, 2364>>>>, <<2392, 2392, <<2325, 2364>>>>,
      <<2393, 2393, <<2326, 2364>>>>, <<2394, 2394, <<2327, 2364>>>>,
      <<2395, 2395, <<2332, 2364>>>>, <<2396, 2396, <<2337, 2364>>>>,
      <<2397, 2397, <<2338, 2364>>>>, <<2398, 2398, <<2347, 2364>>>>,
      <<2399, 2399, <<2351, 2364>>>>, <<2507, 2507, <<2503, 2494>>>>,
      <<2508, 2508, <<2503, 2519>>>>, <<2524, 2524, <<2465, 2492>>>>,
      <<2525, 2525, <<2466, 2492>>>>, <<2527, 2527, <<2479, 2492>>>>,
      <<2611, 2611, <<2610, 2620>>>>, <<2614, 2614, <<2616, 2620>>>>,
      <<2649, 2649, <<2582, 2620>>>>, <<2650, 2650, <<2583, 2620>>>>,
      <<2651, 2651, <<2588, 2620>>>>, <<2654, 2654, <<2603, 2620>>>>,
      <<2888, 2888, <<2887, 2902>>>>, <<2891, 2891, <<2887, 2878>>>>,
      <<2892, 2892, <<2887, 2903>>>>, <<2908, 2908, <<2849, 2876>>>>,
      <<2909, 2909, <<2850, 2876>>>>, <<2964, 2964, <<2962, 3031>>>>,
      <<3018, 3018, <<3014, 3006>>>>, <<3019, 3019, <<3015, 3006>>>>,
      <<3020, 3020, <<3014, 3031>>>>, <<3144, 3144, <<3142, 3158>>>>,
      <<3264, 3264, <<3263, 3285>>>>, <<3271, 3271, <<3270, 3285>>>>,
      <<3272, 3272, <<3270, 3286>>>>, <<3274, 3274, <<3270, 3266>>>>,
      <<3275, 3275, <<3270, 3266, 3285>>>>, <<3402, 3402, <<3398, 3390>>>>,
      <<3403, 3403, <<3399, 3390>>>>, <<3404, 3404, <<3398, 3415>>>>,
      <<3546, 3546, <<3545, 3530>>>>, <<3548, 3548, <<3545, 3535>>>>,
      <<3549, 3549, <<3545, 3535, 3530>>>>, <<3550, 3550, <<3545, 3551>>>>,
      <<3907, 3907, <<3906, 4023>>>>, <<3917, 3917, <<3916, 4023>>>>,
      <<3922, 3922, <<3921, 4023>>>>, <<3927, 3927, <<3926, 4023>>>>,
      <<3932, 3932, <<3931, 4023>>>>, <<3945, 3945, <<3904, 4021>>>>,
      <<3955, 3955, <<3953, 3954>>>>, <<3957, 3957, <<3953, 3956>>>>,
      <<3958, 3958, <<4018, 3968>>>>, <<3960, 3960, <<4019, 3968>>>>,
      <<3969, 3969, <<3953, 3968>>>>, <<3987, 3987, <<3986, 4023>>>>,
      <<3997, 3997, <<3996, 4023>>>>, <<4002, 4002, <<4001, 4023>>>>,
      <<4007, 4007, <<4006, 4023>>>>, <<4012, 4012, <<4011, 4023>>>>,
      <<4025, 4025, <<3984, 4021>>>>, <<4134, 4134, <<4133, 4142>>>>,
      <<6918, 6918, <<6917, 6965>>>>, <<6920, 6920, <<6919, 6965>>>>,
      <<6922, 6922, <<6921, 6965>>>>, <<6924, 6924, <<6923, 6965>>>>,
      <<6926, 6926, <<6925, 6965>>>>, <<6930, 6930, <<6929, 6965>>>>,
      <<6971, 6971, <<6970, 6965>>>>, <<6973, 6973, <<6972, 6965>>>>,
      <<6976, 6976, <<6974, 6965>>>>, <<6977, 6977, <<6975, 6965>>>>,
      <<6979, 6979, <<6978, 6965>>>>, <<7680, 7680, <<65, 805>>>>, <<7681, 7681, <<97, 805>>>>,
      <<7682, 7682, <<66, 775>>>>, <<7683, 7683, <<98, 775>>>>, <<7684, 7684, <<66, 803>>>>,
      <<7685, 7685, <<98, 803>>>>, <<7686, 7686, <<66, 817>>>>, <<7687, 7687, <<98, 817>>>>,
      <<7688, 7688, <<67, 807, 769>>>>, <<7689, 7689, <<99, 807, 769>>>>,
      <<7690, 7690, <<68, 775>>>>, <<7691, 7691, <<100, 775>>>>, <<7692, 7692, <<68, 803>>>>,
      <<7693, 7693, <<100, 803>>>>, <<7694, 7694, <<68, 817>>>>, <<7695, 7695, <<100, 817>>>>,
      <<7696, 7696, <<68, 807>>>>, <<7697, 7697, <<100, 807>>>>, <<7698, 7698, <<68, 813>>>>,
      <<7699, 7699, <<100, 813>>>>, <<7700, 7700, <<69, 772, 768>>>>,
      <<7701, 7701, <<101, 772, 768>>>>, <<7702, 7702, <<69, 772, 769>>>>,
      <<7703, 7703, <<101, 772, 769>>>>, <<7704, 7704, <<69, 813>>>>,
      <<7705, 7705, <<101, 813>>>>, <<7706, 7706, <<69, 816>>>>, <<7707, 7707, <<101, 816>>>>,
      <<7708, 7708, <<69, 807, 774>>>>, <<7709, 7709, <<101, 807, 774>>>>,
      <<7710, 7710, <<70, 775>>>>, <<7711, 7711, <<102, 775>>>>, <<7712, 7712, <<71, 772>>>>,
      <<7713, 7713, <<103, 772>>>>, <<7714, 7714, <<72, 775>>>>, <<7715, 7715, <<104, 775>>>>,
      <<7716, 7716, <<72, 803>>>>, <<7717, 7717, <<104, 803>>>>, <<7718, 7718, <<72, 776>>>>,
      <<7719, 7719, <<104, 776>>>>, <<7720, 7720, <<72, 807>>>>, <<7721, 7721, <<104, 807>>>>,
      <<7722, 7722, <<72, 814>>>>, <<7723, 7723, <<104, 814>>>>, <<7724, 7724, <<73, 816>>>>,
      <<7725, 7725, <<105, 816>>>>, <<7726, 7726, <<73, 776, 769>>>>,
      <<7727, 7727, <<105, 776, 769>>>>, <<7728, 7728, <<75, 769>>>>,
      <<7729, 7729, <<107, 769>>>>, <<7730, 7730, <<75, 803>>>>, <<7731, 7731, <<107, 803>>>>,
      <<7732, 7732, <<75, 817>>>>, <<7733, 7733, <<107, 817>>>>, <<7734, 7734, <<76, 803>>>>,
      <<7735, 7735, <<108, 803>>>>, <<7736, 7736, <<76, 803, 772>>>>,
      <<7737, 7737, <<108, 803, 772>>>>, <<7738, 7738, <<76, 817>>>>,
      <<7739, 7739, <<108, 817>>>>, <<7740, 7740, <<76, 813>>>>, <<7741, 7741, <<108, 813>>>>,
      <<7742, 7742, <<77, 769>>>>, <<7743, 7743, <<109, 769>>>>, <<7744, 7744, <<77, 775>>>>,
      <<7745, 7745, <<109, 775>>>>, <<7746, 7746, <<77, 803>>>>, <<7747, 7747, <<109, 803>>>>,
      <<7748, 7748, <<78, 775>>>>, <<7749, 7749, <<110, 775>>>>, <<7750, 7750, <<78, 803>>>>,
      <<7751, 7751, <<110, 803>>>>, <<7752, 7752, <<78, 817>>>>, <<7753, 7753, <<110, 817>>>>,
      <<7754, 7754, <<78, 813>>>>, <<7755, 7755, <<110, 813>>>>,
      <<7756, 7756, <<79, 771, 769>>>>, <<7757, 7757, <<111, 771, 769>>>>,
      <<7758, 7758, <<79, 771, 776>>>>, <<7759, 7759, <<111, 771, 776>>>>,
      <<7760, 7760, <<79, 772, 768>>>>, <<7761, 7761, <<111, 772, 768>>>>,
      <<7762, 7762, <<79, 772, 769>>>>, <<7763, 7763, <<111, 772, 769>>>>,
      <<7764, 7764, <<80, 769>>>>, <<7765, 7765, <<112, 769>>>>, <<7766, 7766, <<80, 775>>>>,
      <<7767, 7767, <<112, 775>>>>, <<7768, 7768, <<82, 775>>>>, <<7769, 7769, <<114, 775>>>>,
      <<7770, 7770, <<82, 803>>>>, <<7771, 7771, <<114, 803>>>>,
      <<7772, 7772, <<82, 803, 772>>>>, <<7773, 7773, <<114, 803, 772>>>>,
      <<7774, 7774, <<82, 817>>>>, <<7775, 7775, <<114, 817>>>>, <<7776, 7776, <<83, 775>>>>,
      <<7777, 7777, <<115, 775>>>>, <<7778, 7778, <<83, 803>>>>, <<7779, 7779, <<115, 803>>>>,
      <<7780, 7780, <<83, 769, 775>>>>, <<7781, 7781, <<115, 769, 775>>>>,
      <<7782, 7782, <<83, 780, 775>>>>, <<7783, 7783, <<115, 780, 775>>>>,
      <<7784, 7784, <<83, 803, 775>>>>, <<7785, 7785, <<115, 803, 775>>>>,
      <<7786, 7786, <<84, 775>>>>, <<7787, 7787, <<116, 775>>>>, <<7788, 7788, <<84, 803>>>>,
      <<7789, 7789, <<116, 803>>>>, <<7790, 7790, <<84, 817>>>>, <<7791, 7791, <<116, 817>>>>,
      <<7792, 7792, <<84, 813>>>>, <<7793, 7793, <<116, 813>>>>, <<7794, 7794, <<85, 804>>>>,
      <<7795, 7795, <<117, 804>>>>, <<7796, 7796, <<85, 816>>>>, <<7797, 7797, <<117, 816>>>>,
      <<7798, 7798, <<85, 813>>>>, <<7799, 7799, <<117, 813>>>>,
      <<7800, 7800, <<85, 771, 769>>>>, <<7801, 7801, <<117, 771, 769>>>>,
      <<7802, 7802, <<85, 772, 776>>>>, <<7803, 7803, <<117, 772, 776>>>>,
      <<7804, 7804, <<86, 771>>>>, <<7805, 7805, <<118, 771>>>>, <<7806, 7806, <<86, 803>>>>,
      <<7807, 7807, <<118, 803>>>>, <<7808, 7808, <<87, 768>>>>, <<7809, 7809, <<119, 768>>>>,
      <<7810, 7810, <<87, 769>>>>, <<7811, 7811, <<119, 769>>>>, <<7812, 7812, <<87, 776>>>>,
      <<7813, 7813, <<119, 776>>>>, <<7814, 7814, <<87, 775>>>>, <<7815, 7815, <<119, 775>>>>,
      <<7816, 7816, <<87, 803>>>>, <<7817, 7817, <<119, 803>>>>, <<7818, 7818, <<88, 775>>>>,
      <<7819, 7819, <<120, 775>>>>, <<7820, 7820, <<88, 776>>>>, <<7821, 7821, <<120, 776>>>>,
      <<7822, 7822, <<89, 775>>>>, <<7823, 7823, <<121, 775>>>>, <<7824, 7824, <<90, 770>>>>,
      <<7825, 7825, <<122, 770>>>>, <<7826, 7826, <<90, 803>>>>, <<7827, 7827, <<122, 803>>>>,
      <<7828, 7828, <<90, 817>>>>, <<7829, 7829, <<122, 817>>>>, <<7830, 7830, <<104, 817>>>>,
      <<7831, 7831, <<116, 776>>>>, <<7832, 7832, <<119, 778>>>>, <<7833, 7833, <<121, 778>>>>,
      <<7835, 7835, <<383, 775>>>>, <<7840, 7840, <<65, 803>>>>, <<7841, 7841, <<97, 803>>>>,
      <<7842, 7842, <<65, 777>>>>, <<7843, 7843, <<97, 777>>>>,
      <<7844, 7844, <<65, 770, 769>>>>, <<7845, 7845, <<97, 770, 769>>>>,
      <<7846, 7846, <<65, 770, 768>>>>, <<7847, 7847, <<97, 770, 768>>>>,
      <<7848, 7848, <<65, 770, 777>>>>, <<7849, 7849, <<97, 770, 777>>>>,
      <<7850, 7850, <<65, 770, 771>>>>, <<7851, 7851, <<97, 770, 771>>>>,
      <<7852, 7852, <<65, 803, 770>>>>, <<7853, 7853, <<97, 803, 770>>>>,
      <<7854, 7854, <<65, 774, 769>>>>, <<7855, 7855, <<97, 774, 769>>>>,
      <<7856, 7856, <<65, 774, 768>>>>, <<7857, 7857, <<97, 774, 768>>>>,
      <<7858, 7858, <<65, 774, 777>>>>, <<7859, 7859, <<97, 774, 777>>>>,
      <<7860, 7860, <<65, 774, 771>>>>, <<7861, 7861, <<97, 774, 771>>>>,
      <<7862, 7862, <<65, 803, 774>>>>, <<7863, 7863, <<97, 803, 774>>>>,
      <<7864, 7864, <<69, 803>>>>, <<7865, 7865, <<101, 803>>>>, <<7866, 7866, <<69, 777>>>>,
      <<7867, 7867, <<101, 777>>>>, <<7868, 7868, <<69, 771>>>>, <<7869, 7869, <<101, 771>>>>,
      <<7870, 7870, <<69, 770, 769>>>>, <<7871, 7871, <<101, 770, 769>>>>,
      <<7872, 7872, <<69, 770, 768>>>>, <<7873, 7873, <<101, 770, 768>>>>,
      <<7874, 7874, <<69, 770, 777>>>>, <<7875, 7875, <<101, 770, 777>>>>,
      <<7876, 7876, <<69, 770, 771>>>>, <<7877, 7877, <<101, 770, 771>>>>,
      <<7878, 7878, <<69, 803, 770>>>>, <<7879, 7879, <<101, 803, 770>>>>,
      <<7880, 7880, <<73, 777>>>>, <<7881, 7881, <<105, 777>>>>, <<7882, 7882, <<73, 803>>>>,
      <<7883, 7883, <<105, 803>>>>, <<7884, 7884, <<79, 803>>>>, <<7885, 7885, <<111, 803>>>>,
      <<7886, 7886, <<79, 777>>>>, <<7887, 7887, <<111, 777>>>>,
      <<7888, 7888, <<79, 770, 769>>>>, <<7889, 7889, <<111, 770, 769>>>>,
      <<7890, 7890, <<79, 770, 768>>>>, <<7891, 7891, <<111, 770, 768>>>>,
      <<7892, 7892, <<79, 770, 777>>>>, <<7893, 7893, <<111, 770, 777>>>>,
      <<7894, 7894, <<79, 770, 771>>>>, <<7895, 7895, <<111, 770, 771>>>>,
      <<7896, 7896, <<79, 803, 770>>>>, <<7897, 7897, <<111, 803, 770>>>>,
      <<7898, 7898, <<79, 795, 769>>>>, <<7899, 7899, <<111, 795, 769>>>>,
      <<7900, 7900, <<79, 795, 768>>>>, <<7901, 7901, <<111, 795, 768>>>>,
      <<7902, 7902, <<79, 795, 777>>>>, <<7903, 7903, <<111, 795, 777>>>>,
      <<7904, 7904, <<79, 795, 771>>>>, <<7905, 7905, <<111, 795, 771>>>>,
      <<7906, 7906, <<79, 795, 803>>>>, <<7907, 7907, <<111, 795, 803>>>>,
      <<7908, 7908, <<85, 803>>>>, <<7909, 7909, <<117, 803>>>>, <<7910, 7910, <<85, 777>>>>,
      <<7911, 7911, <<117, 777>>>>, <<7912, 7912, <<85, 795, 769>>>>,
      <<7913, 7913, <<117, 795, 769>>>>, <<7914, 7914, <<85, 795, 768>>>>,
      <<7915, 7915, <<117, 795, 768>>>>, <<7916, 7916, <<85, 795, 777>>>>,
      <<7917, 7917, <<117, 795, 777>>>>, <<7918, 7918, <<85, 795, 771>>>>,
      <<7919, 7919, <<117, 795, 771>>>>, <<7920, 7920, <<85, 795, 803>>>>,
      <<7921, 7921, <<117, 795, 803>>>>, <<7922, 7922, <<89, 768>>>>,
      <<7923, 7923, <<121, 768>>>>, <<7924, 7924, <<89, 803>>>>, <<7925, 7925, <<121, 803>>>>,
      <<7926, 7926, <<89, 777>>>>, <<7927, 7927, <<121, 777>>>>, <<7928, 7928, <<89, 771>>>>,
      <<7929, 7929, <<121, 771>>>>, <<7936, 7936, <<945, 787>>>>, <<7937, 7937, <<945, 788>>>>,
      <<7938, 7938, <<945, 787, 768>>>>, <<7939, 7939, <<945, 788, 768>>>>,
      <<7940, 7940, <<945, 787, 769>>>>, <<7941, 7941, <<945, 788, 769>>>>,
      <<7942, 7942, <<945, 787, 834>>>>, <<7943, 7943, <<945, 788, 834>>>>,
      <<7944, 7944, <<913, 787>>>>, <<7945, 7945, <<913, 788>>>>,
      <<7946, 7946, <<913, 787, 768>>>>, <<7947, 7947, <<913, 788, 768>>>>,
      <<7948, 7948, <<913, 787, 769>>>>, <<7949, 7949, <<913, 788, 769>>>>,
      <<7950, 7950, <<913, 787, 834>>>>, <<7951, 7951, <<913, 788, 834>>>>,
      <<7952, 7952, <<949, 787>>>>, <<7953, 7953, <<949, 788>>>>,
      <<7954, 7954, <<949, 787, 768>>>>, <<7955, 7955, <<949, 788, 768>>>>,
      <<7956, 7956, <<949, 787, 769>>>>, <<7957, 7957, <<949, 788, 769>>>>,
      <<7960, 7960, <<917, 787>>>>, <<7961, 7961, <<917, 788>>>>,
      <<7962, 7962, <<917, 787, 768>>>>, <<7963, 7963, <<917, 788, 768>>>>,
      <<7964, 7964, <<917, 787, 769>>>>, <<7965, 7965, <<917, 788, 769>>>>,
      <<7968, 7968, <<951, 787>>>>, <<7969, 7969, <<951, 788>>>>,
      <<7970, 7970, <<951, 787, 768>>>>, <<7971, 7971, <<951, 788, 768>>>>,
      <<7972, 7972, <<951, 787, 769>>>>, <<7973, 7973, <<951, 788, 769>>>>,
      <<7974, 7974, <<951, 787, 834>>>>, <<7975, 7975, <<951, 788, 834>>>>,
      <<7976, 7976, <<919, 787>>>>, <<7977, 7977, <<919, 788>>>>,
      <<7978, 7978, <<919, 787, 768>>>>, <<7979, 7979, <<919, 788, 768>>>>,
      <<7980, 7980, <<919, 787, 769>>>>, <<7981, 7981, <<919, 788, 769>>>>,
      <<7982, 7982, <<919, 787, 834>>>>, <<7983, 7983, <<919, 788, 834>>>>,
      <<7984, 7984, <<953, 787>>>>, <<7985, 7985, <<953, 788>>>>,
      <<7986, 7986, <<953, 787, 768>>>>, <<7987, 7987, <<953, 788, 768>>>>,
      <<7988, 7988, <<953, 787, 769>>>>, <<7989, 7989, <<953, 788, 769>>>>,
      <<7990, 7990, <<953, 787, 834>>>>, <<7991, 7991, <<953, 788, 834>>>>,
      <<7992, 7992, <<921, 787>>>>, <<7993, 7993, <<921, 788>>>>,
      <<7994, 7994, <<921, 787, 768>>>>, <<7995, 7995, <<921, 788, 768>>>>,
      <<7996, 7996, <<921, 787, 769>>>>, <<7997, 7997, <<921, 788, 769>>>>,
      <<7998, 7998, <<921, 787, 834>>>>, <<7999, 7999, <<921, 788, 834>>>>,
      <<8000, 8000, <<959, 787>>>>, <<8001, 8001, <<959, 788>>>>,
      <<8002, 8002, <<959, 787, 768>>>>, <<8003, 8003, <<959, 788, 768>>>>,
      <<8004, 8004, <<959, 787, 769>>>>, <<8005, 8005, <<959, 788, 769>>>>,
      <<8008, 8008, <<927, 787>>>>, <<8009, 8009, <<927, 788>>>>,
      <<8010, 8010, <<927, 787, 768>>>>, <<8011, 8011, <<927, 788, 768>>>>,
      <<8012, 8012, <<927, 787, 769>>>>, <<8013, 8013, <<927, 788, 769>>>>,
      <<8016, 8016, <<965, 787>>>>, <<8017, 8017, <<965, 788>>>>,
      <<8018, 8018, <<965, 787, 768>>>>, <<8019, 8019, <<965, 788, 768>>>>,
      <<8020, 8020, <<965, 787, 769>>>>, <<8021, 8021, <<965, 788, 769>>>>,
      <<8022, 8022, <<965, 787, 834>>>>, <<8023, 8023, <<965, 788, 834>>>>,
      <<8025, 8025, <<933, 788>>>>, <<8027, 8027, <<933, 788, 768>>>>,
      <<8029, 8029, <<933, 788, 769>>>>, <<8031, 8031, <<933, 788, 834>>>>,
      <<8032, 8032, <<969, 787>>>>, <<8033, 8033, <<969, 788>>>>,
      <<8034, 8034, <<969, 787, 768>>>>, <<8035, 8035, <<969, 788, 768>>>>,
      <<8036, 8036, <<969, 787, 769>>>>, <<8037, 8037, <<969, 788, 769>>>>,
      <<8038, 8038, <<969, 787, 834>>>>, <<8039, 8039, <<969, 788, 834>>>>,
      <<8040, 8040, <<937, 787>>>>, <<8041, 8041, <<937, 788>>>>,
      <<8042, 8042, <<937, 787, 768>>>>, <<8043, 8043, <<937, 788, 768>>>>,
      <<8044, 8044, <<937, 787, 769>>>>, <<8045, 8045, <<937, 788, 769>>>>,
      <<8046, 8046, <<937, 787, 834>>>>, <<8047, 8047, <<937, 788, 834>>>>,
      <<8048, 8048, <<945, 768>>>>, <<8049, 8049, <<945, 769>>>>, <<8050, 8050, <<949, 768>>>>,
      <<8051, 8051, <<949, 769>>>>, <<8052, 8052, <<951, 768>>>>, <<8053, 8053, <<951, 769>>>>,
      <<8054, 8054, <<953, 768>>>>, <<8055, 8055, <<953, 769>>>>, <<8056, 8056, <<959, 768>>>>,
      <<8057, 8057, <<959, 769>>>>, <<8058, 8058, <<965, 768>>>>, <<8059, 8059, <<965, 769>>>>,
      <<8060, 8060, <<969, 768>>>>, <<8061, 8061, <<969, 769>>>>,
      <<8064, 8064, <<945, 787, 837>>>>, <<8065, 8065, <<945, 788, 837>>>>,
      <<8066, 8066, <<945, 787, 768, 837>>>>, <<8067, 8067, <<945, 788, 768, 837>>>>,
      <<8068, 8068, <<945, 787, 769, 837>>>>, <<8069, 8069, <<945, 788, 769, 837>>>>,
      <<8070, 8070, <<945, 787, 834, 837>>>>, <<8071, 8071, <<945, 788, 834, 837>>>>,
      <<8072, 8072, <<913, 787, 837>>>>, <<8073, 8073, <<913, 788, 837>>>>,
      <<8074, 8074, <<913, 787, 768, 837>>>>, <<8075, 8075, <<913, 788, 768, 837>>>>,
      <<8076, 8076, <<913, 787, 769, 837>>>>, <<8077, 8077, <<913, 788, 769, 837>>>>,
      <<8078, 8078, <<913, 787, 834, 837>>>>, <<8079, 8079, <<913, 788, 834, 837>>>>,
      <<8080, 8080, <<951, 787, 837>>>>, <<8081, 8081, <<951, 788, 837>>>>,
      <<8082, 8082, <<951, 787, 768, 837>>>>, <<8083, 8083, <<951, 788, 768, 837>>>>,
      <<8084, 8084, <<951, 787, 769, 837>>>>, <<8085, 8085, <<951, 788, 769, 837>>>>,
      <<8086, 8086, <<951, 787, 834, 837>>>>, <<8087, 8087, <<951, 788, 834, 837>>>>,
      <<8088, 8088, <<919, 787, 837>>>>, <<8089, 8089, <<919, 788, 837>>>>,
      <<8090, 8090, <<919, 787, 768, 837>>>>, <<8091, 8091, <<919, 788, 768, 837>>>>,
      <<8092, 8092, <<919, 787, 769, 837>>>>, <<8093, 8093, <<919, 788, 769, 837>>>>,
      <<8094, 8094, <<919, 787, 834, 837>>>>, <<8095, 8095, <<919, 788, 834, 837>>>>,
      <<8096, 8096, <<969, 787, 837>>>>, <<8097, 8097, <<969, 788, 837>>>>,
      <<8098, 8098, <<969, 787, 768, 837>>>>, <<8099, 8099, <<969, 788, 768, 837>>>>,
      <<8100, 8100, <<969, 787, 769, 837>>>>, <<8101, 8101, <<969, 788, 769, 837>>>>,
      <<8102, 8102, <<969, 787, 834, 837>>>>, <<8103, 8103, <<969, 788, 834, 837>>>>,
      <<8104, 8104, <<937, 787, 837>>>>, <<8105, 8105, <<937, 788, 837>>>>,
      <<8106, 8106, <<937, 787, 768, 837>>>>, <<8107, 8107, <<937, 788, 768, 837>>>>,
      <<8108, 8108, <<937, 787, 769, 837>>>>, <<8109, 8109, <<937, 788, 769, 837>>>>,
      <<8110, 8110, <<937, 787, 834, 837>>>>, <<8111, 8111, <<937, 788, 834, 837>>>>,
      <<8112, 8112, <<945, 774>>>>, <<8113, 8113, <<945, 772>>>>,
      <<8114, 8114, <<945, 768, 837>>>>, <<8115, 8115, <<945, 837>>>>,
      <<8116, 8116, <<945, 769, 837>>>>, <<8118, 8118, <<945, 834>>>>,
      <<8119, 8119, <<945, 834, 837>>>>, <<8120, 8120, <<913, 774>>>>,
      <<8121, 8121, <<913, 772>>>>, <<8122, 8122, <<913, 768>>>>, <<8123, 8123, <<913, 769>>>>,
      <<8124, 8124, <<913, 837>>>>, <<8126, 8126, <<953>>>>, <<8129, 8129, <<168, 834>>>>,
      <<8130, 8130, <<951, 768, 837>>>>, <<8131, 8131, <<951, 837>>>>,
      <<8132, 8132, <<951, 769, 837>>>>, <<8134, 8134, <<951, 834>>>>,
      <<8135, 8135, <<951, 834, 837>>>>, <<8136, 8136, <<917, 768>>>>,
      <<8137, 8137, <<917, 769>>>>, <<8138, 8138, <<919, 768>>>>, <<8139, 8139, <<919, 769>>>>,
      <<8140, 8140, <<919, 837>>>>, <<8141, 8141, <<8127, 768>>>>,
      <<8142, 8142, <<8127, 769>>>>, <<8143, 8143, <<8127, 834>>>>,
      <<8144, 8144, <<953, 774>>>>, <<8145, 8145, <<953, 772>>>>,
      <<8146, 8146, <<953, 776, 768>>>>, <<8147, 8147, <<953, 776, 769>>>>,
      <<8150, 8150, <<953, 834>>>>, <<8151, 8151, <<953, 776, 834>>>>,
      <<8152, 8152, <<921, 774>>>>, <<8153, 8153, <<921, 772>>>>, <<8154, 8154, <<921, 768>>>>,
      <<8155, 8155, <<921, 769>>>>, <<8157, 8157, <<8190, 768>>>>,
      <<8158, 8158, <<8190, 769>>>>, <<8159, 8159, <<8190, 834>>>>,
      <<8160, 8160, <<965, 774>>>>, <<8161, 8161, <<965, 772>>>>,
      <<8162, 8162, <<965, 776, 768>>>>, <<8163, 8163, <<965, 776, 769>>>>,
      <<8164, 8164, <<961, 787>>>>, <<8165, 8165, <<961, 788>>>>, <<8166, 8166, <<965, 834>>>>,
      <<8167, 8167, <<965, 776, 834>>>>, <<8168, 8168, <<933, 774>>>>,
      <<8169, 8169, <<933, 772>>>>, <<8170, 8170, <<933, 768>>>>, <<8171, 8171, <<933, 769>>>>,
      <<8172, 8172, <<929, 788>>>>, <<8173, 8173, <<168, 768>>>>, <<8174, 8174, <<168, 769>>>>,
      <<8175, 8175, <<96>>>>, <<8178, 8178, <<969, 768, 837>>>>, <<8179, 8179, <<969, 837>>>>,
      <<8180, 8180, <<969, 769, 837>>>>, <<8182, 8182, <<969, 834>>>>,
      <<8183, 8183, <<969, 834, 837>>>>, <<8184, 8184, <<927, 768>>>>,
      <<8185, 8185, <<927, 769>>>>, <<8186, 8186, <<937, 768>>>>, <<8187, 8187, <<937, 769>>>>,
      <<8188, 8188, <<937, 837>>>>, <<8189, 8189, <<180>>>>, <<8192, 8192, <<8194>>>>,
      <<8193, 8193, <<8195>>>>, <<8486, 8486, <<937>>>>, <<8490, 8490, <<75>>>>,
      <<8491, 8491, <<65, 778>>>>, <<8602, 8602, <<8592, 824>>>>, <<8603, 8603, <<8594, 824>>>>,
      <<8622, 8622, <<8596, 824>>>>, <<8653, 8653, <<8656, 824>>>>,
      <<8654, 8654, <<8660, 824>>>>, <<8655, 8655, <<8658, 824>>>>,
      <<8708, 8708, <<8707, 824>>>>, <<8713, 8713, <<8712, 824>>>>,
      <<8716, 8716, <<8715, 824>>>>, <<8740, 8740, <<8739, 824>>>>,
      <<8742, 8742, <<8741, 824>>>>, <<8769, 8769, <<8764, 824>>>>,
      <<8772, 8772, <<8771, 824>>>>, <<8775, 8775, <<8773, 824>>>>,
      <<8777, 8777, <<8776, 824>>>>, <<8800, 8800, <<61, 824>>>>, <<8802, 8802, <<8801, 824>>>>,
      <<8813, 8813, <<8781, 824>>>>, <<8814, 8814, <<60, 824>>>>, <<8815, 8815, <<62, 824>>>>,
      <<8816, 8816, <<8804, 824>>>>, <<8817, 8817, <<8805, 824>>>>,
      <<8820, 8820, <<8818, 824>>>>, <<8821, 8821, <<8819, 824>>>>,
      <<8824, 8824, <<8822, 824>>>>, <<8825, 8825, <<8823, 824>>>>,
      <<8832, 8832, <<8826, 824>>>>, <<8833, 8833, <<8827, 824>>>>,
      <<8836, 8836, <<8834, 824>>>>, <<8837, 8837, <<8835, 824>>>>,
      <<8840, 8840, <<8838, 824>>>>, <<8841, 8841, <<8839, 824>>>>,
      <<8876, 8876, <<8866, 824>>>>, <<8877, 8877, <<8872, 824>>>>,
      <<8878, 8878, <<8873, 824>>>>, <<8879, 8879, <<8875, 824>>>>,
      <<8928, 8928, <<8828, 824>>>>, <<8929, 8929, <<8829, 824>>>>,
      <<8930, 8930, <<8849, 824>>>>, <<8931, 8931, <<8850, 824>>>>,
      <<8938, 8938, <<8882, 824>>>>, <<8939, 8939, <<8883, 824>>>>,
      <<8940, 8940, <<8884, 824>>>>, <<8941, 8941, <<8885, 824>>>>, <<9001, 9001, <<12296>>>>,
      <<9002, 9002, <<12297>>>>, <<10972, 10972, <<10973, 824>>>>,
      <<12364, 12364, <<12363, 12441>>>>, <<12366, 12366, <<12365, 12441>>>>,
      <<12368, 12368, <<12367, 12441>>>>, <<12370, 12370, <<12369, 12441>>>>,
      <<12372, 12372, <<12371, 12441>>>>, <<12374, 12374, <<12373, 12441>>>>,
      <<12376, 12376, <<12375, 12441>>>>, <<12378, 12378, <<12377, 12441>>>>,
      <<12380, 12380, <<12379, 12441>>>>, <<12382, 12382, <<12381, 12441>>>>,
      <<12384, 12384, <<12383, 12441>>>>, <<12386, 12386, <<12385, 12441>>>>,
      <<12389, 12389, <<12388, 12441>>>>, <<12391, 12391, <<12390, 12441>>>>,
      <<12393, 12393, <<12392, 12441>>>>, <<12400, 12400, <<12399, 12441>>>>,
      <<12401, 12401, <<12399, 12442>>>>, <<12403, 12403, <<12402, 12441>>>>,
      <<12404, 12404, <<12402, 12442>>>>, <<12406, 12406, <<12405, 12441>>>>,
      <<12407, 12407, <<12405, 12442>>>>, <<12409, 12409, <<12408, 12441>>>>,
      <<12410, 12410, <<12408, 12442>>>>, <<12412, 12412, <<12411, 12441>>>>,
      <<12413, 12413, <<12411, 12442>>>>, <<12436, 12436, <<12358, 12441>>>>,
      <<12446, 12446, <<12445, 12441>>>>, <<12460, 12460, <<12459, 12441>>>>,
      <<12462, 12462, <<12461, 12441>>>>, <<12464, 12464, <<12463, 12441>>>>,
      <<12466, 12466, <<12465, 12441>>>>, <<12468, 12468, <<12467, 12441>>>>,
      <<12470, 12470, <<12469, 12441>>>>, <<12472, 12472, <<12471, 12441>>>>,
      <<12474, 12474, <<12473, 12441>>>>, <<12476, 12476, <<12475, 12441>>>>,
      <<12478, 12478, <<12477, 12441>>>>, <<12480, 12480, <<12479, 12441>>>>,
      <<12482, 12482, <<12481, 12441>>>>, <<12485, 12485, <<12484, 12441>>>>,
      <<12487, 12487, <<12486, 12441>>>>, <<12489, 12489, <<12488, 12441>>>>,
      <<12496, 12496, <<12495, 12441>>>>, <<12497, 12497, <<12495, 12442>>>>,
      <<12499, 12499, <<12498, 12441>>>>, <<12500, 12500, <<12498, 12442>>>>,
      <<12502, 12502, <<12501, 12441>>>>, <<12503, 12503, <<12501, 12442>>>>,
      <<12505, 12505, <<12504, 12441>>>>, <<12506, 12506, <<12504, 12442>>>>,
      <<12508, 12508, <<12507, 12441>>>>, <<12509, 12509, <<12507, 12442>>>>,
      <<12532, 12532, <<12454, 12441>>>>, <<12535, 12535, <<12527, 12441>>>>,
      <<12536, 12536, <<12528, 12441>>>>, <<12537, 12537, <<12529, 12441>>>>,
      <<12538, 12538, <<12530, 12441>>>>, <<12542, 12542, <<12541, 12441>>>>,
      <<63744, 63744, <<35912>>>>, <<63745, 63745, <<26356>>>>, <<63746, 63746, <<36554>>>>,
      <<63747, 63747, <<36040>>>>, <<63748, 63748, <<28369>>>>, <<63749, 63749, <<20018>>>>,
      <<63750, 63750, <<21477>>>>, <<63751, 63751, <<40860>>>>, <<63752, 63752, <<40860>>>>,
      <<63753, 63753, <<22865>>>>, <<63754, 63754, <<37329>>>>, <<63755, 63755, <<21895>>>>,
      <<63756, 63756, <<22856>>>>, <<63757, 63757, <<25078>>>>, <<63758, 63758, <<30313>>>>,
      <<63759, 63759, <<32645>>>>, <<63760, 63760, <<34367>>>>, <<63761, 63761, <<34746>>>>,
      <<63762, 63762, <<35064>>>>, <<63763, 63763, <<37007>>>>, <<63764, 63764, <<27138>>>>,
      <<63765, 63765, <<27931>>>>, <<63766, 63766, <<28889>>>>, <<63767, 63767, <<29662>>>>,
      <<63768, 63768, <<33853>>>>, <<63769, 63769, <<37226>>>>, <<63770, 63770, <<39409>>>>,
      <<63771, 63771, <<20098>>>>, <<63772, 63772, <<21365>>>>, <<63773, 63773, <<27396>>>>,
      <<63774, 63774, <<29211>>>>, <<63775, 63775, <<34349>>>>, <<63776, 63776, <<40478>>>>,
      <<63777, 63777, <<23888>>>>, <<63778, 63778, <<28651>>>>, <<63779, 63779, <<34253>>>>,
      <<63780, 63780, <<35172>>>>, <<63781, 63781, <<25289>>>>, <<63782, 63782, <<33240>>>>,
      <<63783, 63783, <<34847>>>>, <<63784, 63784, <<24266>>>>, <<63785, 63785, <<26391>>>>,
      <<63786, 63786, <<28010>>>>, <<63787, 63787, <<29436>>>>, <<63788, 63788, <<37070>>>>,
      <<63789, 63789, <<20358>>>>, <<63790, 63790, <<20919>>>>, <<63791, 63791, <<21214>>>>,
      <<63792, 63792, <<25796>>>>, <<63793, 63793, <<27347>>>>, <<63794, 63794, <<29200>>>>,
      <<63795, 63795, <<30439>>>>, <<63796, 63796, <<32769>>>>, <<63797, 63797, <<34310>>>>,
      <<63798, 63798, <<34396>>>>, <<63799, 63799, <<36335>>>>, <<63800, 63800, <<38706>>>>,
      <<63801, 63801, <<39791>>>>, <<63802, 63802, <<40442>>>>, <<63803, 63803, <<30860>>>>,
      <<63804, 63804, <<31103>>>>, <<63805, 63805, <<32160>>>>, <<63806, 63806, <<33737>>>>,
      <<63807, 63807, <<37636>>>>, <<63808, 63808, <<40575>>>>, <<63809, 63809, <<35542>>>>,
      <<63810, 63810, <<22751>>>>, <<63811, 63811, <<24324>>>>, <<63812, 63812, <<31840>>>>,
      <<63813, 63813, <<32894>>>>, <<63814, 63814, <<29282>>>>, <<63815, 63815, <<30922>>>>,
      <<63816, 63816, <<36034>>>>, <<63817, 63817, <<38647>>>>, <<63818, 63818, <<22744>>>>,
      <<63819, 63819, <<23650>>>>, <<63820, 63820, <<27155>>>>, <<63821, 63821, <<28122>>>>,
      <<63822, 63822, <<28431>>>>, <<63823, 63823, <<32047>>>>, <<63824, 63824, <<32311>>>>,
      <<63825, 63825, <<38475>>>>, <<63826, 63826, <<21202>>>>, <<63827, 63827, <<32907>>>>,
      <<63828, 63828, <<20956>>>>, <<63829, 63829, <<20940>>>>, <<63830, 63830, <<31260>>>>,
      <<63831, 63831, <<32190>>>>, <<63832, 63832, <<33777>>>>, <<63833, 63833, <<38517>>>>,
      <<63834, 63834, <<35712>>>>, <<63835, 63835, <<25295>>>>, <<63836, 63836, <<27138>>>>,
      <<63837, 63837, <<35582>>>>, <<63838, 63838, <<20025>>>>, <<63839, 63839, <<23527>>>>,
      <<63840, 63840, <<24594>>>>, <<63841, 63841, <<29575>>>>, <<63842, 63842, <<30064>>>>,
      <<63843, 63843, <<21271>>>>, <<63844, 63844, <<30971>>>>, <<63845, 63845, <<20415>>>>,
      <<63846, 63846, <<24489>>>>, <<63847, 63847, <<19981>>>>, <<63848, 63848, <<27852>>>>,
      <<63849, 63849, <<25976>>>>, <<63850, 63850, <<32034>>>>, <<63851, 63851, <<21443>>>>,
      <<63852, 63852, <<22622>>>>, <<63853, 63853, <<30465>>>>, <<63854, 63854, <<33865>>>>,
      <<63855, 63855, <<35498>>>>, <<63856, 63856, <<27578>>>>, <<63857, 63857, <<36784>>>>,
      <<63858, 63858, <<27784>>>>, <<63859, 63859, <<25342>>>>, <<63860, 63860, <<33509>>>>,
      <<63861, 63861, <<25504>>>>, <<63862, 63862, <<30053>>>>, <<63863, 63863, <<20142>>>>,
      <<63864, 63864, <<20841>>>>, <<63865, 63865, <<20937>>>>, <<63866, 63866, <<26753>>>>,
      <<63867, 63867, <<31975>>>>, <<63868, 63868, <<33391>>>>, <<63869, 63869, <<35538>>>>,
      <<63870, 63870, <<37327>>>>, <<63871, 63871, <<21237>>>>, <<63872, 63872, <<21570>>>>,
      <<63873, 63873, <<22899>>>>, <<63874, 63874, <<24300>>>>, <<63875, 63875, <<26053>>>>,
      <<63876, 63876, <<28670>>>>, <<63877, 63877, <<31018>>>>, <<63878, 63878, <<38317>>>>,
      <<63879, 63879, <<39530>>>>, <<63880, 63880, <<40599>>>>, <<63881, 63881, <<40654>>>>,
      <<63882, 63882, <<21147>>>>, <<63883, 63883, <<26310>>>>, <<63884, 63884, <<27511>>>>,
      <<63885, 63885, <<36706>>>>, <<63886, 63886, <<24180>>>>, <<63887, 63887, <<24976>>>>,
      <<63888, 63888, <<25088>>>>, <<63889, 63889, <<25754>>>>, <<63890, 63890, <<28451>>>>,
      <<63891, 63891, <<29001>>>>, <<63892, 63892, <<29833>>>>, <<63893, 63893, <<31178>>>>,
      <<63894, 63894, <<32244>>>>, <<63895, 63895, <<32879>>>>, <<63896, 63896, <<36646>>>>,
      <<63897, 63897, <<34030>>>>, <<63898, 63898, <<36899>>>>, <<63899, 63899, <<37706>>>>,
      <<63900, 63900, <<21015>>>>, <<63901, 63901, <<21155>>>>, <<63902, 63902, <<21693>>>>,
      <<63903, 63903, <<28872>>>>, <<63904, 63904, <<35010>>>>, <<63905, 63905, <<35498>>>>,
      <<63906, 63906, <<24265>>>>, <<63907, 63907, <<24565>>>>, <<63908, 63908, <<25467>>>>,
      <<63909, 63909, <<27566>>>>, <<63910, 63910, <<31806>>>>, <<63911, 63911, <<29557>>>>,
      <<63912, 63912, <<20196>>>>, <<63913, 63913, <<22265>>>>, <<63914, 63914, <<23527>>>>,
      <<63915, 63915, <<23994>>>>, <<63916, 63916, <<24604>>>>, <<63917, 63917, <<29618>>>>,
      <<63918, 63918, <<29801>>>>, <<63919, 63919, <<32666>>>>, <<63920, 63920, <<32838>>>>,
      <<63921, 63921, <<37428>>>>, <<63922, 63922, <<38646>>>>, <<63923, 63923, <<38728>>>>,
      <<63924, 63924, <<38936>>>>, <<63925, 63925, <<20363>>>>, <<63926, 63926, <<31150>>>>,
      <<63927, 63927, <<37300>>>>, <<63928, 63928, <<38584>>>>, <<63929, 63929, <<24801>>>>,
      <<63930, 63930, <<20102>>>>, <<63931, 63931, <<20698>>>>, <<63932, 63932, <<23534>>>>,
      <<63933, 63933, <<23615>>>>, <<63934, 63934, <<26009>>>>, <<63935, 63935, <<27138>>>>,
      <<63936, 63936, <<29134>>>>, <<63937, 63937, <<30274>>>>, <<63938, 63938, <<34044>>>>,
      <<63939, 63939, <<36988>>>>, <<63940, 63940, <<40845>>>>, <<63941, 63941, <<26248>>>>,
      <<63942, 63942, <<38446>>>>, <<63943, 63943, <<21129>>>>, <<63944, 63944, <<26491>>>>,
      <<63945, 63945, <<26611>>>>, <<63946, 63946, <<27969>>>>, <<63947, 63947, <<28316>>>>,
      <<63948, 63948, <<29705>>>>, <<63949, 63949, <<30041>>>>, <<63950, 63950, <<30827>>>>,
      <<63951, 63951, <<32016>>>>, <<63952, 63952, <<39006>>>>, <<63953, 63953, <<20845>>>>,
      <<63954, 63954, <<25134>>>>, <<63955, 63955, <<38520>>>>, <<63956, 63956, <<20523>>>>,
      <<63957, 63957, <<23833>>>>, <<63958, 63958, <<28138>>>>, <<63959, 63959, <<36650>>>>,
      <<63960, 63960, <<24459>>>>, <<63961, 63961, <<24900>>>>, <<63962, 63962, <<26647>>>>,
      <<63963, 63963, <<29575>>>>, <<63964, 63964, <<38534>>>>, <<63965, 63965, <<21033>>>>,
      <<63966, 63966, <<21519>>>>, <<63967, 63967, <<23653>>>>, <<63968, 63968, <<26131>>>>,
      <<63969, 63969, <<26446>>>>, <<63970, 63970, <<26792>>>>, <<63971, 63971, <<27877>>>>,
      <<63972, 63972, <<29702>>>>, <<63973, 63973, <<30178>>>>, <<63974, 63974, <<32633>>>>,
      <<63975, 63975, <<35023>>>>, <<63976, 63976, <<35041>>>>, <<63977, 63977, <<37324>>>>,
      <<63978, 63978, <<38626>>>>, <<63979, 63979, <<21311>>>>, <<63980, 63980, <<28346>>>>,
      <<63981, 63981, <<21533>>>>, <<63982, 63982, <<29136>>>>, <<63983, 63983, <<29848>>>>,
      <<63984, 63984, <<34298>>>>, <<63985, 63985, <<38563>>>>, <<63986, 63986, <<40023>>>>,
      <<63987, 63987, <<40607>>>>, <<63988, 63988, <<26519>>>>, <<63989, 63989, <<28107>>>>,
      <<63990, 63990, <<33256>>>>, <<63991, 63991, <<31435>>>>, <<63992, 63992, <<31520>>>>,
      <<63993, 63993, <<31890>>>>, <<63994, 63994, <<29376>>>>, <<63995, 63995, <<28825>>>>,
      <<63996, 63996, <<35672>>>>, <<63997, 63997, <<20160>>>>, <<63998, 63998, <<33590>>>>,
      <<63999, 63999, <<21050>>>>, <<64000, 64000, <<20999>>>>, <<64001, 64001, <<24230>>>>,
      <<64002, 64002, <<25299>>>>, <<64003, 64003, <<31958>>>>, <<64004, 64004, <<23429>>>>,
      <<64005, 64005, <<27934>>>>, <<64006, 64006, <<26292>>>>, <<64007, 64007, <<36667>>>>,
      <<64008, 64008, <<34892>>>>, <<64009, 64009, <<38477>>>>, <<64010, 64010, <<35211>>>>,
      <<64011, 64011, <<24275>>>>, <<64012, 64012, <<20800>>>>, <<64013, 64013, <<21952>>>>,
      <<64016, 64016, <<22618>>>>, <<64018, 64018, <<26228>>>>, <<64021, 64021, <<20958>>>>,
      <<64022, 64022, <<29482>>>>, <<64023, 64023, <<30410>>>>, <<64024, 64024, <<31036>>>>,
      <<64025, 64025, <<31070>>>>, <<64026, 64026, <<31077>>>>, <<64027, 64027, <<31119>>>>,
      <<64028, 64028, <<38742>>>>, <<64029, 64029, <<31934>>>>, <<64030, 64030, <<32701>>>>,
      <<64032, 64032, <<34322>>>>, <<64034, 64034, <<35576>>>>, <<64037, 64037, <<36920>>>>,
      <<64038, 64038, <<37117>>>>, <<64042, 64042, <<39151>>>>, <<64043, 64043, <<39164>>>>,
      <<64044, 64044, <<39208>>>>, <<64045, 64045, <<40372>>>>, <<64046, 64046, <<37086>>>>,
      <<64047, 64047, <<38583>>>>, <<64048, 64048, <<20398>>>>, <<64049, 64049, <<20711>>>>,
      <<64050, 64050, <<20813>>>>, <<64051, 64051, <<21193>>>>, <<64052, 64052, <<21220>>>>,
      <<64053, 64053, <<21329>>>>, <<64054, 64054, <<21917>>>>, <<64055, 64055, <<22022>>>>,
      <<64056, 64056, <<22120>>>>, <<64057, 64057, <<22592>>>>, <<64058, 64058, <<22696>>>>,
      <<64059, 64059, <<23652>>>>, <<64060, 64060, <<23662>>>>, <<64061, 64061, <<24724>>>>,
      <<64062, 64062, <<24936>>>>, <<64063, 64063, <<24974>>>>, <<64064, 64064, <<25074>>>>,
      <<64065, 64065, <<25935>>>>, <<64066, 64066, <<26082>>>>, <<64067, 64067, <<26257>>>>,
      <<64068, 64068, <<26757>>>>, <<64069, 64069, <<28023>>>>, <<64070, 64070, <<28186>>>>,
      <<64071, 64071, <<28450>>>>, <<64072, 64072, <<29038>>>>, <<64073, 64073, <<29227>>>>,
      <<64074, 64074, <<29730>>>>, <<64075, 64075, <<30865>>>>, <<64076, 64076, <<31038>>>>,
      <<64077, 64077, <<31049>>>>, <<64078, 64078, <<31048>>>>, <<64079, 64079, <<31056>>>>,
      <<64080, 64080, <<31062>>>>, <<64081, 64081, <<31069>>>>, <<64082, 64082, <<31117>>>>,
      <<64083, 64083, <<31118>>>>, <<64084, 64084, <<31296>>>>, <<64085, 64085, <<31361>>>>,
      <<64086, 64086, <<31680>>>>, <<64087, 64087, <<32244>>>>, <<64088, 64088, <<32265>>>>,
      <<64089, 64089, <<32321>>>>, <<64090, 64090, <<32626>>>>, <<64091, 64091, <<32773>>>>,
      <<64092, 64092, <<33261>>>>, <<64093, 64093, <<33401>>>>, <<64094, 64094, <<33401>>>>,
      <<64095, 64095, <<33879>>>>, <<64096, 64096, <<35088>>>>, <<64097, 64097, <<35222>>>>,
      <<64098, 64098, <<35585>>>>, <<64099, 64099, <<35641>>>>, <<64100, 64100, <<36051>>>>,
      <<64101, 64101, <<36104>>>>, <<64102, 64102, <<36790>>>>, <<64103, 64103, <<36920>>>>,
      <<64104, 64104, <<38627>>>>, <<64105, 64105, <<38911>>>>, <<64106, 64106, <<38971>>>>,
      <<64107, 64107, <<24693>>>>, <<64108, 64108, <<148206>>>>, <<64109, 64109, <<33304>>>>,
      <<64112, 64112, <<20006>>>>, <<64113, 64113, <<20917>>>>, <<64114, 64114, <<20840>>>>,
      <<64115, 64115, <<20352>>>>, <<64116, 64116, <<20805>>>>, <<64117, 64117, <<20864>>>>,
      <<64118, 64118, <<21191>>>>, <<64119, 64119, <<21242>>>>, <<64120, 64120, <<21917>>>>,
      <<64121, 64121, <<21845>>>>, <<64122, 64122, <<21913>>>>, <<64123, 64123, <<21986>>>>,
      <<64124, 64124, <<22618>>>>, <<64125, 64125, <<22707>>>>, <<64126, 64126, <<22852>>>>,
      <<64127, 64127, <<22868>>>>, <<64128, 64128, <<23138>>>>, <<64129, 64129, <<23336>>>>,
      <<64130, 64130, <<24274>>>>, <<64131, 64131, <<24281>>>>, <<64132, 64132, <<24425>>>>,
      <<64133, 64133, <<24493>>>>, <<64134, 64134, <<24792>>>>, <<64135, 64135, <<24910>>>>,
      <<64136, 64136, <<24840>>>>, <<64137, 64137, <<24974>>>>, <<64138, 64138, <<24928>>>>,
      <<64139, 64139, <<25074>>>>, <<64140, 64140, <<25140>>>>, <<64141, 64141, <<25540>>>>,
      <<64142, 64142, <<25628>>>>, <<64143, 64143, <<25682>>>>, <<64144, 64144, <<25942>>>>,
      <<64145, 64145, <<26228>>>>, <<64146, 64146, <<26391>>>>, <<64147, 64147, <<26395>>>>,
      <<64148, 64148, <<26454>>>>, <<64149, 64149, <<27513>>>>, <<64150, 64150, <<27578>>>>,
      <<64151, 64151, <<27969>>>>, <<64152, 64152, <<28379>>>>, <<64153, 64153, <<28363>>>>,
      <<64154, 64154, <<28450>>>>, <<64155, 64155, <<28702>>>>, <<64156, 64156, <<29038>>>>,
      <<64157, 64157, <<30631>>>>, <<64158, 64158, <<29237>>>>, <<64159, 64159, <<29359>>>>,
      <<64160, 64160, <<29482>>>>, <<64161, 64161, <<29809>>>>, <<64162, 64162, <<29958>>>>,
      <<64163, 64163, <<30011>>>>, <<64164, 64164, <<30237>>>>, <<64165, 64165, <<30239>>>>,
      <<64166, 64166, <<30410>>>>, <<64167, 64167, <<30427>>>>, <<64168, 64168, <<30452>>>>,
      <<64169, 64169, <<30538>>>>, <<64170, 64170, <<30528>>>>, <<64171, 64171, <<30924>>>>,
      <<64172, 64172, <<31409>>>>, <<64173, 64173, <<31680>>>>, <<64174, 64174, <<31867>>>>,
      <<64175, 64175, <<32091>>>>, <<64176, 64176, <<32244>>>>, <<64177, 64177, <<32574>>>>,
      <<64178, 64178, <<32773>>>>, <<64179, 64179, <<33618>>>>, <<64180, 64180, <<33775>>>>,
      <<64181, 64181, <<34681>>>>, <<64182, 64182, <<35137>>>>, <<64183, 64183, <<35206>>>>,
      <<64184, 64184, <<35222>>>>, <<64185, 64185, <<35519>>>>, <<64186, 64186, <<35576>>>>,
      <<64187, 64187, <<35531>>>>, <<64188, 64188, <<35585>>>>, <<64189, 64189, <<35582>>>>,
      <<64190, 64190, <<35565>>>>, <<64191, 64191, <<35641>>>>, <<64192, 64192, <<35722>>>>,
      <<64193, 64193, <<36104>>>>, <<64194, 64194, <<36664>>>>, <<64195, 64195, <<36978>>>>,
      <<64196, 64196, <<37273>>>>, <<64197, 64197, <<37494>>>>, <<64198, 64198, <<38524>>>>,
      <<64199, 64199, <<38627>>>>, <<64200, 64200, <<38742>>>>, <<64201, 64201, <<38875>>>>,
      <<64202, 64202, <<38911>>>>, <<64203, 64203, <<38923>>>>, <<64204, 64204, <<38971>>>>,
      <<64205, 64205, <<39698>>>>, <<64206, 64206, <<40860>>>>, <<64207, 64207, <<141386>>>>,
      <<64208, 64208, <<141380>>>>, <<64209, 64209, <<144341>>>>, <<64210, 64210, <<15261>>>>,
      <<64211, 64211, <<16408>>>>, <<64212, 64212, <<16441>>>>, <<64213, 64213, <<152137>>>>,
      <<64214, 64214, <<154832>>>>, <<64215, 64215, <<163539>>>>, <<64216, 64216, <<40771>>>>,
      <<64217, 64217, <<40846>>>>, <<64285, 64285, <<1497, 1460>>>>,
      <<64287, 64287, <<1522, 1463>>>>, <<64298, 64298, <<1513, 1473>>>>,
      <<64299, 64299, <<1513, 1474>>>>, <<64300, 64300, <<1513, 1468, 1473>>>>,
      <<64301, 64301, <<1513, 1468, 1474>>>>, <<64302, 64302, <<1488, 1463>>>>,
      <<64303, 64303, <<1488, 1464>>>>, <<64304, 64304, <<1488, 1468>>>>,
      <<64305, 64305, <<1489, 1468>>>>, <<64306, 64306, <<1490, 1468>>>>,
      <<64307, 64307, <<1491, 1468>>>>, <<64308, 64308, <<1492, 1468>>>>,
      <<64309, 64309, <<1493, 1468>>>>, <<64310, 64310, <<1494, 1468>>>>,
      <<64312, 64312, <<1496, 1468>>>>, <<64313, 64313, <<1497, 1468>>>>,
      <<64314, 64314, <<1498, 1468>>>>, <<64315, 64315, <<1499, 1468>>>>,
      <<64316, 64316, <<1500, 1468>>>>, <<64318, 64318, <<1502, 1468>>>>,
      <<64320, 64320, <<1504, 1468>>>>, <<64321, 64321, <<1505, 1468>>>>,
      <<64323, 64323, <<1507, 1468>>>>, <<64324, 64324, <<1508, 1468>>>>,
      <<64326, 64326, <<1510, 1468>>>>, <<64327, 64327, <<1511, 1468>>>>,
      <<64328, 64328, <<1512, 1468>>>>, <<64329, 64329, <<1513, 1468>>>>,
      <<64330, 64330, <<1514, 1468>>>>, <<64331, 64331, <<1493, 1465>>>>,
      <<64332, 64332, <<1489, 1471>>>>, <<64333, 64333, <<1499, 1471>>>>,
      <<64334, 64334, <<1508, 1471>>>>, <<69786, 69786, <<69785, 69818>>>>,
      <<69788, 69788, <<69787, 69818>>>>, <<69803, 69803, <<69797, 69818>>>>,
      <<69934, 69934, <<69937, 69927>>>>, <<69935, 69935, <<69938, 69927>>>>,
      <<70475, 70475, <<70471, 70462>>>>, <<70476, 70476, <<70471, 70487>>>>,
      <<70843, 70843, <<70841, 70842>>>>, <<70844, 70844, <<70841, 70832>>>>,
      <<70846, 70846, <<70841, 70845>>>>, <<71098, 71098, <<71096, 71087>>>>,
      <<71099, 71099, <<71097, 71087>>>>, <<71992, 71992, <<71989, 71984>>>>,
      <<119134, 119134, <<119127, 119141>>>>, <<119135, 119135, <<119128, 119141>>>>,
      <<119136, 119136, <<119128, 119141, 119150>>>>,
      <<119137, 119137, <<119128, 119141, 119151>>>>,
      <<119138, 119138, <<119128, 119141, 119152>>>>,
      <<119139, 119139, <<119128, 119141, 119153>>>>,
      <<119140, 119140, <<119128, 119141, 119154>>>>, <<119227, 119227, <<119225, 119141>>>>,
      <<119228, 119228, <<119226, 119141>>>>, <<119229, 119229, <<119225, 119141, 119150>>>>,
      <<119230, 119230, <<119226, 119141, 119150>>>>,
      <<119231, 119231, <<119225, 119141, 119151>>>>,
      <<119232, 119232, <<119226, 119141, 119151>>>>, <<194560, 194560, <<20029>>>>,
      <<194561, 194561, <<20024>>>>, <<194562, 194562, <<20033>>>>,
      <<194563, 194563, <<131362>>>>, <<194564, 194564, <<20320>>>>,
      <<194565, 194565, <<20398>>>>, <<194566, 194566, <<20411>>>>,
      <<194567, 194567, <<20482>>>>, <<194568, 194568, <<20602>>>>,
      <<194569, 194569, <<20633>>>>, <<194570, 194570, <<20711>>>>,
      <<194571, 194571, <<20687>>>>, <<194572, 194572, <<13470>>>>,
      <<194573, 194573, <<132666>>>>, <<194574, 194574, <<20813>>>>,
      <<194575, 194575, <<20820>>>>, <<194576, 194576, <<20836>>>>,
      <<194577, 194577, <<20855>>>>, <<194578, 194578, <<132380>>>>,
      <<194579, 194579, <<13497>>>>, <<194580, 194580, <<20839>>>>,
      <<194581, 194581, <<20877>>>>, <<194582, 194582, <<132427>>>>,
      <<194583, 194583, <<20887>>>>, <<194584, 194584, <<20900>>>>,
      <<194585, 194585, <<20172>>>>, <<194586, 194586, <<20908>>>>,
      <<194587, 194587, <<20917>>>>, <<194588, 194588, <<168415>>>>,
      <<194589, 194589, <<20981>>>>, <<194590, 194590, <<20995>>>>,
      <<194591, 194591, <<13535>>>>, <<194592, 194592, <<21051>>>>,
      <<194593, 194593, <<21062>>>>, <<194594, 194594, <<21106>>>>,
      <<194595, 194595, <<21111>>>>, <<194596, 194596, <<13589>>>>,
      <<194597, 194597, <<21191>>>>, <<194598, 194598, <<21193>>>>,
      <<194599, 194599, <<21220>>>>, <<194600, 194600, <<21242>>>>,
      <<194601, 194601, <<21253>>>>, <<194602, 194602, <<21254>>>>,
      <<194603, 194603, <<21271>>>>, <<194604, 194604, <<21321>>>>,
      <<194605, 194605, <<21329>>>>, <<194606, 194606, <<21338>>>>,
      <<194607, 194607, <<21363>>>>, <<194608, 194608, <<21373>>>>,
      <<194609, 194609, <<21375>>>>, <<194610, 194610, <<21375>>>>,
      <<194611, 194611, <<21375>>>>, <<194612, 194612, <<133676>>>>,
      <<194613, 194613, <<28784>>>>, <<194614, 194614, <<21450>>>>,
      <<194615, 194615, <<21471>>>>, <<194616, 194616, <<133987>>>>,
      <<194617, 194617, <<21483>>>>, <<194618, 194618, <<21489>>>>,
      <<194619, 194619, <<21510>>>>, <<194620, 194620, <<21662>>>>,
      <<194621, 194621, <<21560>>>>, <<194622, 194622, <<21576>>>>,
      <<194623, 194623, <<21608>>>>, <<194624, 194624, <<21666>>>>,
      <<194625, 194625, <<21750>>>>, <<194626, 194626, <<21776>>>>,
      <<194627, 194627, <<21843>>>>, <<194628, 194628, <<21859>>>>,
      <<194629, 194629, <<21892>>>>, <<194630, 194630, <<21892>>>>,
      <<194631, 194631, <<21913>>>>, <<194632, 194632, <<21931>>>>,
      <<194633, 194633, <<21939>>>>, <<194634, 194634, <<21954>>>>,
      <<194635, 194635, <<22294>>>>, <<194636, 194636, <<22022>>>>,
      <<194637, 194637, <<22295>>>>, <<194638, 194638, <<22097>>>>,
      <<194639, 194639, <<22132>>>>, <<194640, 194640, <<20999>>>>,
      <<194641, 194641, <<22766>>>>, <<194642, 194642, <<22478>>>>,
      <<194643, 194643, <<22516>>>>, <<194644, 194644, <<22541>>>>,
      <<194645, 194645, <<22411>>>>, <<194646, 194646, <<22578>>>>,
      <<194647, 194647, <<22577>>>>, <<194648, 194648, <<22700>>>>,
      <<194649, 194649, <<136420>>>>, <<194650, 194650, <<22770>>>>,
      <<194651, 194651, <<22775>>>>, <<194652, 194652, <<22790>>>>,
      <<194653, 194653, <<22810>>>>, <<194654, 194654, <<22818>>>>,
      <<194655, 194655, <<22882>>>>, <<194656, 194656, <<136872>>>>,
      <<194657, 194657, <<136938>>>>, <<194658, 194658, <<23020>>>>,
      <<194659, 194659, <<23067>>>>, <<194660, 194660, <<23079>>>>,
      <<194661, 194661, <<23000>>>>, <<194662, 194662, <<23142>>>>,
      <<194663, 194663, <<14062>>>>, <<194664, 194664, <<14076>>>>,
      <<194665, 194665, <<23304>>>>, <<194666, 194666, <<23358>>>>,
      <<194667, 194667, <<23358>>>>, <<194668, 194668, <<137672>>>>,
      <<194669, 194669, <<23491>>>>, <<194670, 194670, <<23512>>>>,
      <<194671, 194671, <<23527>>>>, <<194672, 194672, <<23539>>>>,
      <<194673, 194673, <<138008>>>>, <<194674, 194674, <<23551>>>>,
      <<194675, 194675, <<23558>>>>, <<194676, 194676, <<24403>>>>,
      <<194677, 194677, <<23586>>>>, <<194678, 194678, <<14209>>>>,
      <<194679, 194679, <<23648>>>>, <<194680, 194680, <<23662>>>>,
      <<194681, 194681, <<23744>>>>, <<194682, 194682, <<23693>>>>,
      <<194683, 194683, <<138724>>>>, <<194684, 194684, <<23875>>>>,
      <<194685, 194685, <<138726>>>>, <<194686, 194686, <<23918>>>>,
      <<194687, 194687, <<23915>>>>, <<194688, 194688, <<23932>>>>,
      <<194689, 194689, <<24033>>>>, <<194690, 194690, <<24034>>>>,
      <<194691, 194691, <<14383>>>>, <<194692, 194692, <<24061>>>>,
      <<194693, 194693, <<24104>>>>, <<194694, 194694, <<24125>>>>,
      <<194695, 194695, <<24169>>>>, <<194696, 194696, <<14434>>>>,
      <<194697, 194697, <<139651>>>>, <<194698, 194698, <<14460>>>>,
      <<194699, 194699, <<24240>>>>, <<194700, 194700, <<24243>>>>,
      <<194701, 194701, <<24246>>>>, <<194702, 194702, <<24266>>>>,
      <<194703, 194703, <<172946>>>>, <<194704, 194704, <<24318>>>>,
      <<194705, 194705, <<140081>>>>, <<194706, 194706, <<140081>>>>,
      <<194707, 194707, <<33281>>>>, <<194708, 194708, <<24354>>>>,
      <<194709, 194709, <<24354>>>>, <<194710, 194710, <<14535>>>>,
      <<194711, 194711, <<144056>>>>, <<194712, 194712, <<156122>>>>,
      <<194713, 194713, <<24418>>>>, <<194714, 194714, <<24427>>>>,
      <<194715, 194715, <<14563>>>>, <<194716, 194716, <<24474>>>>,
      <<194717, 194717, <<24525>>>>, <<194718, 194718, <<24535>>>>,
      <<194719, 194719, <<24569>>>>, <<194720, 194720, <<24705>>>>,
      <<194721, 194721, <<14650>>>>, <<194722, 194722, <<14620>>>>,
      <<194723, 194723, <<24724>>>>, <<194724, 194724, <<141012>>>>,
      <<194725, 194725, <<24775>>>>, <<194726, 194726, <<24904>>>>,
      <<194727, 194727, <<24908>>>>, <<194728, 194728, <<24910>>>>,
      <<194729, 194729, <<24908>>>>, <<194730, 194730, <<24954>>>>,
      <<194731, 194731, <<24974>>>>, <<194732, 194732, <<25010>>>>,
      <<194733, 194733, <<24996>>>>, <<194734, 194734, <<25007>>>>,
      <<194735, 194735, <<25054>>>>, <<194736, 194736, <<25074>>>>,
      <<194737, 194737, <<25078>>>>, <<194738, 194738, <<25104>>>>,
      <<194739, 194739, <<25115>>>>, <<194740, 194740, <<25181>>>>,
      <<194741, 194741, <<25265>>>>, <<194742, 194742, <<25300>>>>,
      <<194743, 194743, <<25424>>>>, <<194744, 194744, <<142092>>>>,
      <<194745, 194745, <<25405>>>>, <<194746, 194746, <<25340>>>>,
      <<194747, 194747, <<25448>>>>, <<194748, 194748, <<25475>>>>,
      <<194749, 194749, <<25572>>>>, <<194750, 194750, <<142321>>>>,
      <<194751, 194751, <<25634>>>>, <<194752, 194752, <<25541>>>>,
      <<194753, 194753, <<25513>>>>, <<194754, 194754, <<14894>>>>,
      <<194755, 194755, <<25705>>>>, <<194756, 194756, <<25726>>>>,
      <<194757, 194757, <<25757>>>>, <<194758, 194758, <<25719>>>>,
      <<194759, 194759, <<14956>>>>, <<194760, 194760, <<25935>>>>,
      <<194761, 194761, <<25964>>>>, <<194762, 194762, <<143370>>>>,
      <<194763, 194763, <<26083>>>>, <<194764, 194764, <<26360>>>>,
      <<194765, 194765, <<26185>>>>, <<194766, 194766, <<15129>>>>,
      <<194767, 194767, <<26257>>>>, <<194768, 194768, <<15112>>>>,
      <<194769, 194769, <<15076>>>>, <<194770, 194770, <<20882>>>>,
      <<194771, 194771, <<20885>>>>, <<194772, 194772, <<26368>>>>,
      <<194773, 194773, <<26268>>>>, <<194774, 194774, <<32941>>>>,
      <<194775, 194775, <<17369>>>>, <<194776, 194776, <<26391>>>>,
      <<194777, 194777, <<26395>>>>, <<194778, 194778, <<26401>>>>,
      <<194779, 194779, <<26462>>>>, <<194780, 194780, <<26451>>>>,
      <<194781, 194781, <<144323>>>>, <<194782, 194782, <<15177>>>>,
      <<194783, 194783, <<26618>>>>, <<194784, 194784, <<26501>>>>,
      <<194785, 194785, <<26706>>>>, <<194786, 194786, <<26757>>>>,
      <<194787, 194787, <<144493>>>>, <<194788, 194788, <<26766>>>>,
      <<194789, 194789, <<26655>>>>, <<194790, 194790, <<26900>>>>,
      <<194791, 194791, <<15261>>>>, <<194792, 194792, <<26946>>>>,
      <<194793, 194793, <<27043>>>>, <<194794, 194794, <<27114>>>>,
      <<194795, 194795, <<27304>>>>, <<194796, 194796, <<145059>>>>,
      <<194797, 194797, <<27355>>>>, <<194798, 194798, <<15384>>>>,
      <<194799, 194799, <<27425>>>>, <<194800, 194800, <<145575>>>>,
      <<194801, 194801, <<27476>>>>, <<194802, 194802, <<15438>>>>,
      <<194803, 194803, <<27506>>>>, <<194804, 194804, <<27551>>>>,
      <<194805, 194805, <<27578>>>>, <<194806, 194806, <<27579>>>>,
      <<194807, 194807, <<146061>>>>, <<194808, 194808, <<138507>>>>,
      <<194809, 194809, <<146170>>>>, <<194810, 194810, <<27726>>>>,
      <<194811, 194811, <<146620>>>>, <<194812, 194812, <<27839>>>>,
      <<194813, 194813, <<27853>>>>, <<194814, 194814, <<27751>>>>,
      <<194815, 194815, <<27926>>>>, <<194816, 194816, <<27966>>>>,
      <<194817, 194817, <<28023>>>>, <<194818, 194818, <<27969>>>>,
      <<194819, 194819, <<28009>>>>, <<194820, 194820, <<28024>>>>,
      <<194821, 194821, <<28037>>>>, <<194822, 194822, <<146718>>>>,
      <<194823, 194823, <<27956>>>>, <<194824, 194824, <<28207>>>>,
      <<194825, 194825, <<28270>>>>, <<194826, 194826, <<15667>>>>,
      <<194827, 194827, <<28363>>>>, <<194828, 194828, <<28359>>>>,
      <<194829, 194829, <<147153>>>>, <<194830, 194830, <<28153>>>>,
      <<194831, 194831, <<28526>>>>, <<194832, 194832, <<147294>>>>,
      <<194833, 194833, <<147342>>>>, <<194834, 194834, <<28614>>>>,
      <<194835, 194835, <<28729>>>>, <<194836, 194836, <<28702>>>>,
      <<194837, 194837, <<28699>>>>, <<194838, 194838, <<15766>>>>,
      <<194839, 194839, <<28746>>>>, <<194840, 194840, <<28797>>>>,
      <<194841, 194841, <<28791>>>>, <<194842, 194842, <<28845>>>>,
      <<194843, 194843, <<132389>>>>, <<194844, 194844, <<28997>>>>,
      <<194845, 194845, <<148067>>>>, <<194846, 194846, <<29084>>>>,
      <<194847, 194847, <<148395>>>>, <<194848, 194848, <<29224>>>>,
      <<194849, 194849, <<29237>>>>, <<194850, 194850, <<29264>>>>,
      <<194851, 194851, <<149000>>>>, <<194852, 194852, <<29312>>>>,
      <<194853, 194853, <<29333>>>>, <<194854, 194854, <<149301>>>>,
      <<194855, 194855, <<149524>>>>, <<194856, 194856, <<29562>>>>,
      <<194857, 194857, <<29579>>>>, <<194858, 194858, <<16044>>>>,
      <<194859, 194859, <<29605>>>>, <<194860, 194860, <<16056>>>>,
      <<194861, 194861, <<16056>>>>, <<194862, 194862, <<29767>>>>,
      <<194863, 194863, <<29788>>>>, <<194864, 194864, <<29809>>>>,
      <<194865, 194865, <<29829>>>>, <<194866, 194866, <<29898>>>>,
      <<194867, 194867, <<16155>>>>, <<194868, 194868, <<29988>>>>,
      <<194869, 194869, <<150582>>>>, <<194870, 194870, <<30014>>>>,
      <<194871, 194871, <<150674>>>>, <<194872, 194872, <<30064>>>>,
      <<194873, 194873, <<139679>>>>, <<194874, 194874, <<30224>>>>,
      <<194875, 194875, <<151457>>>>, <<194876, 194876, <<151480>>>>,
      <<194877, 194877, <<151620>>>>, <<194878, 194878, <<16380>>>>,
      <<194879, 194879, <<16392>>>>, <<194880, 194880, <<30452>>>>,
      <<194881, 194881, <<151795>>>>, <<194882, 194882, <<151794>>>>,
      <<194883, 194883, <<151833>>>>, <<194884, 194884, <<151859>>>>,
      <<194885, 194885, <<30494>>>>, <<194886, 194886, <<30495>>>>,
      <<194887, 194887, <<30495>>>>, <<194888, 194888, <<30538>>>>,
      <<194889, 194889, <<16441>>>>, <<194890, 194890, <<30603>>>>,
      <<194891, 194891, <<16454>>>>, <<194892, 194892, <<16534>>>>,
      <<194893, 194893, <<152605>>>>, <<194894, 194894, <<30798>>>>,
      <<194895, 194895, <<30860>>>>, <<194896, 194896, <<30924>>>>,
      <<194897, 194897, <<16611>>>>, <<194898, 194898, <<153126>>>>,
      <<194899, 194899, <<31062>>>>, <<194900, 194900, <<153242>>>>,
      <<194901, 194901, <<153285>>>>, <<194902, 194902, <<31119>>>>,
      <<194903, 194903, <<31211>>>>, <<194904, 194904, <<16687>>>>,
      <<194905, 194905, <<31296>>>>, <<194906, 194906, <<31306>>>>,
      <<194907, 194907, <<31311>>>>, <<194908, 194908, <<153980>>>>,
      <<194909, 194909, <<154279>>>>, <<194910, 194910, <<154279>>>>,
      <<194911, 194911, <<31470>>>>, <<194912, 194912, <<16898>>>>,
      <<194913, 194913, <<154539>>>>, <<194914, 194914, <<31686>>>>,
      <<194915, 194915, <<31689>>>>, <<194916, 194916, <<16935>>>>,
      <<194917, 194917, <<154752>>>>, <<194918, 194918, <<31954>>>>,
      <<194919, 194919, <<17056>>>>, <<194920, 194920, <<31976>>>>,
      <<194921, 194921, <<31971>>>>, <<194922, 194922, <<32000>>>>,
      <<194923, 194923, <<155526>>>>, <<194924, 194924, <<32099>>>>,
      <<194925, 194925, <<17153>>>>, <<194926, 194926, <<32199>>>>,
      <<194927, 194927, <<32258>>>>, <<194928, 194928, <<32325>>>>,
      <<194929, 194929, <<17204>>>>, <<194930, 194930, <<156200>>>>,
      <<194931, 194931, <<156231>>>>, <<194932, 194932, <<17241>>>>,
      <<194933, 194933, <<156377>>>>, <<194934, 194934, <<32634>>>>,
      <<194935, 194935, <<156478>>>>, <<194936, 194936, <<32661>>>>,
      <<194937, 194937, <<32762>>>>, <<194938, 194938, <<32773>>>>,
      <<194939, 194939, <<156890>>>>, <<194940, 194940, <<156963>>>>,
      <<194941, 194941, <<32864>>>>, <<194942, 194942, <<157096>>>>,
      <<194943, 194943, <<32880>>>>, <<194944, 194944, <<144223>>>>,
      <<194945, 194945, <<17365>>>>, <<194946, 194946, <<32946>>>>,
      <<194947, 194947, <<33027>>>>, <<194948, 194948, <<17419>>>>,
      <<194949, 194949, <<33086>>>>, <<194950, 194950, <<23221>>>>,
      <<194951, 194951, <<157607>>>>, <<194952, 194952, <<157621>>>>,
      <<194953, 194953, <<144275>>>>, <<194954, 194954, <<144284>>>>,
      <<194955, 194955, <<33281>>>>, <<194956, 194956, <<33284>>>>,
      <<194957, 194957, <<36766>>>>, <<194958, 194958, <<17515>>>>,
      <<194959, 194959, <<33425>>>>, <<194960, 194960, <<33419>>>>,
      <<194961, 194961, <<33437>>>>, <<194962, 194962, <<21171>>>>,
      <<194963, 194963, <<33457>>>>, <<194964, 194964, <<33459>>>>,
      <<194965, 194965, <<33469>>>>, <<194966, 194966, <<33510>>>>,
      <<194967, 194967, <<158524>>>>, <<194968, 194968, <<33509>>>>,
      <<194969, 194969, <<33565>>>>, <<194970, 194970, <<33635>>>>,
      <<194971, 194971, <<33709>>>>, <<194972, 194972, <<33571>>>>,
      <<194973, 194973, <<33725>>>>, <<194974, 194974, <<33767>>>>,
      <<194975, 194975, <<33879>>>>, <<194976, 194976, <<33619>>>>,
      <<194977, 194977, <<33738>>>>, <<194978, 194978, <<33740>>>>,
      <<194979, 194979, <<33756>>>>, <<194980, 194980, <<158774>>>>,
      <<194981, 194981, <<159083>>>>, <<194982, 194982, <<158933>>>>,
      <<194983, 194983, <<17707>>>>, <<194984, 194984, <<34033>>>>,
      <<194985, 194985, <<34035>>>>, <<194986, 194986, <<34070>>>>,
      <<194987, 194987, <<160714>>>>, <<194988, 194988, <<34148>>>>,
      <<194989, 194989, <<159532>>>>, <<194990, 194990, <<17757>>>>,
      <<194991, 194991, <<17761>>>>, <<194992, 194992, <<159665>>>>,
      <<194993, 194993, <<159954>>>>, <<194994, 194994, <<17771>>>>,
      <<194995, 194995, <<34384>>>>, <<194996, 194996, <<34396>>>>,
      <<194997, 194997, <<34407>>>>, <<194998, 194998, <<34409>>>>,
      <<194999, 194999, <<34473>>>>, <<195000, 195000, <<34440>>>>,
      <<195001, 195001, <<34574>>>>, <<195002, 195002, <<34530>>>>,
      <<195003, 195003, <<34681>>>>, <<195004, 195004, <<34600>>>>,
      <<195005, 195005, <<34667>>>>, <<195006, 195006, <<34694>>>>,
      <<195007, 195007, <<17879>>>>, <<195008, 195008, <<34785>>>>,
      <<195009, 195009, <<34817>>>>, <<195010, 195010, <<17913>>>>,
      <<195011, 195011, <<34912>>>>, <<195012, 195012, <<34915>>>>,
      <<195013, 195013, <<161383>>>>, <<195014, 195014, <<35031>>>>,
      <<195015, 195015, <<35038>>>>, <<195016, 195016, <<17973>>>>,
      <<195017, 195017, <<35066>>>>, <<195018, 195018, <<13499>>>>,
      <<195019, 195019, <<161966>>>>, <<195020, 195020, <<162150>>>>,
      <<195021, 195021, <<18110>>>>, <<195022, 195022, <<18119>>>>,
      <<195023, 195023, <<35488>>>>, <<195024, 195024, <<35565>>>>,
      <<195025, 195025, <<35722>>>>, <<195026, 195026, <<35925>>>>,
      <<195027, 195027, <<162984>>>>, <<195028, 195028, <<36011>>>>,
      <<195029, 195029, <<36033>>>>, <<195030, 195030, <<36123>>>>,
      <<195031, 195031, <<36215>>>>, <<195032, 195032, <<163631>>>>,
      <<195033, 195033, <<133124>>>>, <<195034, 195034, <<36299>>>>,
      <<195035, 195035, <<36284>>>>, <<195036, 195036, <<36336>>>>,
      <<195037, 195037, <<133342>>>>, <<195038, 195038, <<36564>>>>,
      <<195039, 195039, <<36664>>>>, <<195040, 195040, <<165330>>>>,
      <<195041, 195041, <<165357>>>>, <<195042, 195042, <<37012>>>>,
      <<195043, 195043, <<37105>>>>, <<195044, 195044, <<37137>>>>,
      <<195045, 195045, <<165678>>>>, <<195046, 195046, <<37147>>>>,
      <<195047, 195047, <<37432>>>>, <<195048, 195048, <<37591>>>>,
      <<195049, 195049, <<37592>>>>, <<195050, 195050, <<37500>>>>,
      <<195051, 195051, <<37881>>>>, <<195052, 195052, <<37909>>>>,
      <<195053, 195053, <<166906>>>>, <<195054, 195054, <<38283>>>>,
      <<195055, 195055, <<18837>>>>, <<195056, 195056, <<38327>>>>,
      <<195057, 195057, <<167287>>>>, <<195058, 195058, <<18918>>>>,
      <<195059, 195059, <<38595>>>>, <<195060, 195060, <<23986>>>>,
      <<195061, 195061, <<38691>>>>, <<195062, 195062, <<168261>>>>,
      <<195063, 195063, <<168474>>>>, <<195064, 195064, <<19054>>>>,
      <<195065, 195065, <<19062>>>>, <<195066, 195066, <<38880>>>>,
      <<195067, 195067, <<168970>>>>, <<195068, 195068, <<19122>>>>,
      <<195069, 195069, <<169110>>>>, <<195070, 195070, <<38923>>>>,
      <<195071, 195071, <<38923>>>>, <<195072, 195072, <<38953>>>>,
      <<195073, 195073, <<169398>>>>, <<195074, 195074, <<39138>>>>,
      <<195075, 195075, <<19251>>>>, <<195076, 195076, <<39209>>>>,
      <<195077, 195077, <<39335>>>>, <<195078, 195078, <<39362>>>>,
      <<195079, 195079, <<39422>>>>, <<195080, 195080, <<19406>>>>,
      <<195081, 195081, <<170800>>>>, <<195082, 195082, <<39698>>>>,
      <<195083, 195083, <<40000>>>>, <<195084, 195084, <<40189>>>>,
      <<195085, 195085, <<19662>>>>, <<195086, 195086, <<19693>>>>,
      <<195087, 195087, <<40295>>>>, <<195088, 195088, <<172238>>>>,
      <<195089, 195089, <<19704>>>>, <<195090, 195090, <<172293>>>>,
      <<195091, 195091, <<172558>>>>, <<195092, 195092, <<172689>>>>,
      <<195093, 195093, <<40635>>>>, <<195094, 195094, <<19798>>>>,
      <<195095, 195095, <<40697>>>>, <<195096, 195096, <<40702>>>>,
      <<195097, 195097, <<40709>>>>, <<195098, 195098, <<40719>>>>,
      <<195099, 195099, <<40726>>>>, <<195100, 195100, <<40763>>>>,
      <<195101, 195101, <<173568>>>> >>

\* the primary composites: <<first, first, <<second, composite, ...>>>> for
\* every pair <<first, second>> that composes
Compositions ==
    << <<60, 60, <<824, 8814>>>>, <<61, 61, <<824, 8800>>>>, <<62, 62, <<824, 8815>>>>,
      <<65, 65, <<768, 192, 769, 193, 770, 194, 771, 195, 772, 256, 774, 258, 775, 550, 776, 196, 777, 7842, 778, 197, 780, 461, 783, 512, 785, 514, 803, 7840, 805, 7680, 808, 260>>>>,
      <<66, 66, <<775, 7682, 803, 7684, 817, 7686>>>>,
      <<67, 67, <<769, 262, 770, 264, 775, 266, 780, 268, 807, 199>>>>,
      <<68, 68, <<775, 7690, 780, 270, 803, 7692, 807, 7696, 813, 7698, 817, 7694>>>>,
      <<69, 69, <<768, 200, 769, 201, 770, 202, 771, 7868, 772, 274, 774, 276, 775, 278, 776, 203, 777, 7866, 780, 282, 783, 516, 785, 518, 803, 7864, 807, 552, 808, 280, 813, 7704, 816, 7706>>>>,
      <<70, 70, <<775, 7710>>>>,
      <<71, 71, <<769, 500, 770, 284, 772, 7712, 774, 286, 775, 288, 780, 486, 807, 290>>>>,
      <<72, 72, <<770, 292, 775, 7714, 776, 7718, 780, 542, 803, 7716, 807, 7720, 814, 7722>>>>,
      <<73, 73, <<768, 204, 769, 205, 770, 206, 771, 296, 772, 298, 774, 300, 775, 304, 776, 207, 777, 7880, 780, 463, 783, 520, 785, 522, 803, 7882, 808, 302, 816, 7724>>>>,
      <<74, 74, <<770, 308>>>>,
      <<75, 75, <<769, 7728, 780, 488, 803, 7730, 807, 310, 817, 7732>>>>,
      <<76, 76, <<769, 313, 780, 317, 803, 7734, 807, 315, 813, 7740, 817, 7738>>>>,
      <<77, 77, <<769, 7742, 775, 7744, 803, 7746>>>>,
      <<78, 78, <<768, 504, 769, 323, 771, 209, 775, 7748, 780, 327, 803, 7750, 807, 325, 813, 7754, 817, 7752>>>>,
      <<79, 79, <<768, 210, 769, 211, 770, 212, 771, 213, 772, 332, 774, 334, 775, 558, 776, 214, 777, 7886, 779, 336, 780, 465, 783, 524, 785, 526, 795, 416, 803, 7884, 808, 490>>>>,
      <<80, 80, <<769, 7764, 775, 7766>>>>,
      <<82, 82, <<769, 340, 775, 7768, 780, 344, 783, 528, 785, 530, 803, 7770, 807, 342, 817, 7774>>>>,
      <<83, 83, <<769, 346, 770, 348, 775, 7776, 780, 352, 803, 7778, 806, 536, 807, 350>>>>,
      <<84, 84, <<775, 7786, 780, 356, 803, 7788, 806, 538, 807, 354, 813, 7792, 817, 7790>>>>,
      <<85, 85, <<768, 217, 769, 218, 770, 219, 771, 360, 772, 362, 774, 364, 776, 220, 777, 7910, 778, 366, 779, 368, 780, 467, 783, 532, 785, 534, 795, 431, 803, 7908, 804, 7794, 808, 370, 813, 7798, 816, 7796>>>>,
      <<86, 86, <<771, 7804, 803, 7806>>>>,
      <<87, 87, <<768, 7808, 769, 7810, 770, 372, 775, 7814, 776, 7812, 803, 7816>>>>,
      <<88, 88, <<775, 7818, 776, 7820>>>>,
      <<89, 89, <<768, 7922, 769, 221, 770, 374, 771, 7928, 772, 562, 775, 7822, 776, 376, 777, 7926, 803, 7924>>>>,
      <<90, 90, <<769, 377, 770, 7824, 775, 379, 780, 381, 803, 7826, 817, 7828>>>>,
      <<97, 97, <<768, 224, 769, 225, 770, 226, 771, 227, 772, 257, 774, 259, 775, 551, 776, 228, 777, 7843, 778, 229, 780, 462, 783, 513, 785, 515, 803, 7841, 805, 7681, 808, 261>>>>,
      <<98, 98, <<775, 7683, 803, 7685, 817, 7687>>>>,
      <<99, 99, <<769, 263, 770, 265, 775, 267, 780, 269, 807, 231>>>>,
      <<100, 100, <<775, 7691, 780, 271, 803, 7693, 807, 7697, 813, 7699, 817, 7695>>>>,
      <<101, 101, <<768, 232, 769, 233, 770, 234, 771, 7869, 772, 275, 774, 277, 775, 279, 776, 235, 777, 7867, 780, 283, 783, 517, 785, 519, 803, 7865, 807, 553, 808, 281, 813, 7705, 816, 7707>>>>,
      <<102, 102, <<775, 7711>>>>,
      <<103, 103, <<769, 501, 770, 285, 772, 7713, 774, 287, 775, 289, 780, 487, 807, 291>>>>,
      <<104, 104, <<770, 293, 775, 7715, 776, 7719, 780, 543, 803, 7717, 807, 7721, 814, 7723, 817, 7830>>>>,
      <<105, 105, <<768, 236, 769, 237, 770, 238, 771, 297, 772, 299, 774, 301, 776, 239, 777, 7881, 780, 464, 783, 521, 785, 523, 803, 7883, 808, 303, 816, 7725>>>>,
      <<106, 106, <<770, 309, 780, 496>>>>,
      <<107, 107, <<769, 7729, 780, 489, 803, 7731, 807, 311, 817, 7733>>>>,
      <<108, 108, <<769, 314, 780, 318, 803, 7735, 807, 316, 813, 7741, 817, 7739>>>>,
      <<109, 109, <<769, 7743, 775, 7745, 803, 7747>>>>,
      <<110, 110, <<768, 505, 769, 324, 771, 241, 775, 7749, 780, 328, 803, 7751, 807, 326, 813, 7755, 817, 7753>>>>,
      <<111, 111, <<768, 242, 769, 243, 770, 244, 771, 245, 772, 333, 774, 335, 775, 559, 776, 246, 777, 7887, 779, 337, 780, 466, 783, 525, 785, 527, 795, 417, 803, 7885, 808, 491>>>>,
      <<112, 112, <<769, 7765, 775, 7767>>>>,
      <<114, 114, <<769, 341, 775, 7769, 780, 345, 783, 529, 785, 531, 803, 7771, 807, 343, 817, 7775>>>>,
      <<115, 115, <<769, 347, 770, 349, 775, 7777, 780, 353, 803, 7779, 806, 537, 807, 351>>>>,
      <<116, 116, <<775, 7787, 776, 7831, 780, 357, 803, 7789, 806, 539, 807, 355, 813, 7793, 817, 7791>>>>,
      <<117, 117, <<768, 249, 769, 250, 770, 251, 771, 361, 772, 363, 774, 365, 776, 252, 777, 7911, 778, 367, 779, 369, 780, 468, 783, 533, 785, 535, 795, 432, 803, 7909, 804, 7795, 808, 371, 813, 7799, 816, 7797>>>>,
      <<118, 118, <<771, 7805, 803, 7807>>>>,
      <<119, 119, <<768, 7809, 769, 7811, 770, 373, 775, 7815, 776, 7813, 778, 7832, 803, 7817>>>>,
      <<120, 120, <<775, 7819, 776, 7821>>>>,
      <<121, 121, <<768, 7923, 769, 253, 770, 375, 771, 7929, 772, 563, 775, 7823, 776, 255, 777, 7927, 778, 7833, 803, 7925>>>>,
      <<122, 122, <<769, 378, 770, 7825, 775, 380, 780, 382, 803, 7827, 817, 7829>>>>,
      <<168, 168, <<768, 8173, 769, 901, 834, 8129>>>>,
      <<194, 194, <<768, 7846, 769, 7844, 771, 7850, 777, 7848>>>>, <<196, 196, <<772, 478>>>>,
      <<197, 197, <<769, 506>>>>, <<198, 198, <<769, 508, 772, 482>>>>,
      <<199, 199, <<769, 7688>>>>, <<202, 202, <<768, 7872, 769, 7870, 771, 7876, 777, 7874>>>>,
      <<207, 207, <<769, 7726>>>>, <<212, 212, <<768, 7890, 769, 7888, 771, 7894, 777, 7892>>>>,
      <<213, 213, <<769, 7756, 772, 556, 776, 7758>>>>, <<214, 214, <<772, 554>>>>,
      <<216, 216, <<769, 510>>>>, <<220, 220, <<768, 475, 769, 471, 772, 469, 780, 473>>>>,
      <<226, 226, <<768, 7847, 769, 7845, 771, 7851, 777, 7849>>>>, <<228, 228, <<772, 479>>>>,
      <<229, 229, <<769, 507>>>>, <<230, 230, <<769, 509, 772, 483>>>>,
      <<231, 231, <<769, 7689>>>>, <<234, 234, <<768, 7873, 769, 7871, 771, 7877, 777, 7875>>>>,
      <<239, 239, <<769, 7727>>>>, <<244, 244, <<768, 7891, 769, 7889, 771, 7895, 777, 7893>>>>,
      <<245, 245, <<769, 7757, 772, 557, 776, 7759>>>>, <<246, 246, <<772, 555>>>>,
      <<248, 248, <<769, 511>>>>, <<252, 252, <<768, 476, 769, 472, 772, 470, 780, 474>>>>,
      <<258, 258, <<768, 7856, 769, 7854, 771, 7860, 777, 7858>>>>,
      <<259, 259, <<768, 7857, 769, 7855, 771, 7861, 777, 7859>>>>,
      <<274, 274, <<768, 7700, 769, 7702>>>>, <<275, 275, <<768, 7701, 769, 7703>>>>,
      <<332, 332, <<768, 7760, 769, 7762>>>>, <<333, 333, <<768, 7761, 769, 7763>>>>,
      <<346, 346, <<775, 7780>>>>, <<347, 347, <<775, 7781>>>>, <<352, 352, <<775, 7782>>>>,
      <<353, 353, <<775, 7783>>>>, <<360, 360, <<769, 7800>>>>, <<361, 361, <<769, 7801>>>>,
      <<362, 362, <<776, 7802>>>>, <<363, 363, <<776, 7803>>>>, <<383, 383, <<775, 7835>>>>,
      <<416, 416, <<768, 7900, 769, 7898, 771, 7904, 777, 7902, 803, 7906>>>>,
      <<417, 417, <<768, 7901, 769, 7899, 771, 7905, 777, 7903, 803, 7907>>>>,
      <<431, 431, <<768, 7914, 769, 7912, 771, 7918, 777, 7916, 803, 7920>>>>,
      <<432, 432, <<768, 7915, 769, 7913, 771, 7919, 777, 7917, 803, 7921>>>>,
      <<439, 439, <<780, 494>>>>, <<490, 490, <<772, 492>>>>, <<491, 491, <<772, 493>>>>,
      <<550, 550, <<772, 480>>>>, <<551, 551, <<772, 481>>>>, <<552, 552, <<774, 7708>>>>,
      <<553, 553, <<774, 7709>>>>, <<558, 558, <<772, 560>>>>, <<559, 559, <<772, 561>>>>,
      <<658, 658, <<780, 495>>>>,
      <<913, 913, <<768, 8122, 769, 902, 772, 8121, 774, 8120, 787, 7944, 788, 7945, 837, 8124>>>>,
      <<917, 917, <<768, 8136, 769, 904, 787, 7960, 788, 7961>>>>,
      <<919, 919, <<768, 8138, 769, 905, 787, 7976, 788, 7977, 837, 8140>>>>,
      <<921, 921, <<768, 8154, 769, 906, 772, 8153, 774, 8152, 776, 938, 787, 7992, 788, 7993>>>>,
      <<927, 927, <<768, 8184, 769, 908, 787, 8008, 788, 8009>>>>, <<929, 929, <<788, 8172>>>>,
      <<933, 933, <<768, 8170, 769, 910, 772, 8169, 774, 8168, 776, 939, 788, 8025>>>>,
      <<937, 937, <<768, 8186, 769, 911, 787, 8040, 788, 8041, 837, 8188>>>>,
      <<940, 940, <<837, 8116>>>>, <<942, 942, <<837, 8132>>>>,
      <<945, 945, <<768, 8048, 769, 940, 772, 8113, 774, 8112, 787, 7936, 788, 7937, 834, 8118, 837, 8115>>>>,
      <<949, 949, <<768, 8050, 769, 941, 787, 7952, 788, 7953>>>>,
      <<951, 951, <<768, 8052, 769, 942, 787, 7968, 788, 7969, 834, 8134, 837, 8131>>>>,
      <<953, 953, <<768, 8054, 769, 943, 772, 8145, 774, 8144, 776, 970, 787, 7984, 788, 7985, 834, 8150>>>>,
      <<959, 959, <<768, 8056, 769, 972, 787, 8000, 788, 8001>>>>,
      <<961, 961, <<787, 8164, 788, 8165>>>>,
      <<965, 965, <<768, 8058, 769, 973, 772, 8161, 774, 8160, 776, 971, 787, 8016, 788, 8017, 834, 8166>>>>,
      <<969, 969, <<768, 8060, 769, 974, 787, 8032, 788, 8033, 834, 8182, 837, 8179>>>>,
      <<970, 970, <<768, 8146, 769, 912, 834, 8151>>>>,
      <<971, 971, <<768, 8162, 769, 944, 834, 8167>>>>, <<974, 974, <<837, 8180>>>>,
      <<978, 978, <<769, 979, 776, 980>>>>, <<1030, 1030, <<776, 1031>>>>,
      <<1040, 1040, <<774, 1232, 776, 1234>>>>, <<1043, 1043, <<769, 1027>>>>,
      <<1045, 1045, <<768, 1024, 774, 1238, 776, 1025>>>>,
      <<1046, 1046, <<774, 1217, 776, 1244>>>>, <<1047, 1047, <<776, 1246>>>>,
      <<1048, 1048, <<768, 1037, 772, 1250, 774, 1049, 776, 1252>>>>,
      <<1050, 1050, <<769, 1036>>>>, <<1054, 1054, <<776, 1254>>>>,
      <<1059, 1059, <<772, 1262, 774, 1038, 776, 1264, 779, 1266>>>>,
      <<1063, 1063, <<776, 1268>>>>, <<1067, 1067, <<776, 1272>>>>,
      <<1069, 1069, <<776, 1260>>>>, <<1072, 1072, <<774, 1233, 776, 1235>>>>,
      <<1075, 1075, <<769, 1107>>>>, <<1077, 1077, <<768, 1104, 774, 1239, 776, 1105>>>>,
      <<1078, 1078, <<774, 1218, 776, 1245>>>>, <<1079, 1079, <<776, 1247>>>>,
      <<1080, 1080, <<768, 1117, 772, 1251, 774, 1081, 776, 1253>>>>,
      <<1082, 1082, <<769, 1116>>>>, <<1086, 1086, <<776, 1255>>>>,
      <<1091, 1091, <<772, 1263, 774, 1118, 776, 1265, 779, 1267>>>>,
      <<1095, 1095, <<776, 1269>>>>, <<1099, 1099, <<776, 1273>>>>,
      <<1101, 1101, <<776, 1261>>>>, <<1110, 1110, <<776, 1111>>>>,
      <<1140, 1140, <<783, 1142>>>>, <<1141, 1141, <<783, 1143>>>>,
      <<1240, 1240, <<776, 1242>>>>, <<1241, 1241, <<776, 1243>>>>,
      <<1256, 1256, <<776, 1258>>>>, <<1257, 1257, <<776, 1259>>>>,
      <<1575, 1575, <<1619, 1570, 1620, 1571, 1621, 1573>>>>, <<1608, 1608, <<1620, 1572>>>>,
      <<1610, 1610, <<1620, 1574>>>>, <<1729, 1729, <<1620, 1730>>>>,
      <<1746, 1746, <<1620, 1747>>>>, <<1749, 1749, <<1620, 1728>>>>,
      <<2344, 2344, <<2364, 2345>>>>, <<2352, 2352, <<2364, 2353>>>>,
      <<2355, 2355, <<2364, 2356>>>>, <<2503, 2503, <<2494, 2507, 2519, 2508>>>>,
      <<2887, 2887, <<2878, 2891, 2902, 2888, 2903, 2892>>>>, <<2962, 2962, <<3031, 2964>>>>,
      <<3014, 3014, <<3006, 3018, 3031, 3020>>>>, <<3015, 3015, <<3006, 3019>>>>,
      <<3142, 3142, <<3158, 3144>>>>, <<3263, 3263, <<3285, 3264>>>>,
      <<3270, 3270, <<3266, 3274, 3285, 3271, 3286, 3272>>>>, <<3274, 3274, <<3285, 3275>>>>,
      <<3398, 3398, <<3390, 3402, 3415, 3404>>>>, <<3399, 3399, <<3390, 3403>>>>,
      <<3545, 3545, <<3530, 3546, 3535, 3548, 3551, 3550>>>>, <<3548, 3548, <<3530, 3549>>>>,
      <<4133, 4133, <<4142, 4134>>>>, <<6917, 6917, <<6965, 6918>>>>,
      <<6919, 6919, <<6965, 6920>>>>, <<6921, 6921, <<6965, 6922>>>>,
      <<6923, 6923, <<6965, 6924>>>>, <<6925, 6925, <<6965, 6926>>>>,
      <<6929, 6929, <<6965, 6930>>>>, <<6970, 6970, <<6965, 6971>>>>,
      <<6972, 6972, <<6965, 6973>>>>, <<6974, 6974, <<6965, 6976>>>>,
      <<6975, 6975, <<6965, 6977>>>>, <<6978, 6978, <<6965, 6979>>>>,
      <<7734, 7734, <<772, 7736>>>>, <<7735, 7735, <<772, 7737>>>>,
      <<7770, 7770, <<772, 7772>>>>, <<7771, 7771, <<772, 7773>>>>,
      <<7778, 7778, <<775, 7784>>>>, <<7779, 7779, <<775, 7785>>>>,
      <<7840, 7840, <<770, 7852, 774, 7862>>>>, <<7841, 7841, <<770, 7853, 774, 7863>>>>,
      <<7864, 7864, <<770, 7878>>>>, <<7865, 7865, <<770, 7879>>>>,
      <<7884, 7884, <<770, 7896>>>>, <<7885, 7885, <<770, 7897>>>>,
      <<7936, 7936, <<768, 7938, 769, 7940, 834, 7942, 837, 8064>>>>,
      <<7937, 7937, <<768, 7939, 769, 7941, 834, 7943, 837, 8065>>>>,
      <<7938, 7938, <<837, 8066>>>>, <<7939, 7939, <<837, 8067>>>>,
      <<7940, 7940, <<837, 8068>>>>, <<7941, 7941, <<837, 8069>>>>,
      <<7942, 7942, <<837, 8070>>>>, <<7943, 7943, <<837, 8071>>>>,
      <<7944, 7944, <<768, 7946, 769, 7948, 834, 7950, 837, 8072>>>>,
      <<7945, 7945, <<768, 7947, 769, 7949, 834, 7951, 837, 8073>>>>,
      <<7946, 7946, <<837, 8074>>>>, <<7947, 7947, <<837, 8075>>>>,
      <<7948, 7948, <<837, 8076>>>>, <<7949, 7949, <<837, 8077>>>>,
      <<7950, 7950, <<837, 8078>>>>, <<7951, 7951, <<837, 8079>>>>,
      <<7952, 7952, <<768, 7954, 769, 7956>>>>, <<7953, 7953, <<768, 7955, 769, 7957>>>>,
      <<7960, 7960, <<768, 7962, 769, 7964>>>>, <<7961, 7961, <<768, 7963, 769, 7965>>>>,
      <<7968, 7968, <<768, 7970, 769, 7972, 834, 7974, 837, 8080>>>>,
      <<7969, 7969, <<768, 7971, 769, 7973, 834, 7975, 837, 8081>>>>,
      <<7970, 7970, <<837, 8082>>>>, <<7971, 7971, <<837, 8083>>>>,
      <<7972, 7972, <<837, 8084>>>>, <<7973, 7973, <<837, 8085>>>>,
      <<7974, 7974, <<837, 8086>>>>, <<7975, 7975, <<837, 8087>>>>,
      <<7976, 7976, <<768, 7978, 769, 7980, 834, 7982, 837, 8088>>>>,
      <<7977, 7977, <<768, 7979, 769, 7981, 834, 7983, 837, 8089>>>>,
      <<7978, 7978, <<837, 8090>>>>, <<7979, 7979, <<837, 8091>>>>,
      <<7980, 7980, <<837, 8092>>>>, <<7981, 7981, <<837, 8093>>>>,
      <<7982, 7982, <<837, 8094>>>>, <<7983, 7983, <<837, 8095>>>>,
      <<7984, 7984, <<768, 7986, 769, 7988, 834, 7990>>>>,
      <<7985, 7985, <<768, 7987, 769, 7989, 834, 7991>>>>,
      <<7992, 7992, <<768, 7994, 769, 7996, 834, 7998>>>>,
      <<7993, 7993, <<768, 7995, 769, 7997, 834, 7999>>>>,
      <<8000, 8000, <<768, 8002, 769, 8004>>>>, <<8001, 8001, <<768, 8003, 769, 8005>>>>,
      <<8008, 8008, <<768, 8010, 769, 8012>>>>, <<8009, 8009, <<768, 8011, 769, 8013>>>>,
      <<8016, 8016, <<768, 8018, 769, 8020, 834, 8022>>>>,
      <<8017, 8017, <<768, 8019, 769, 8021, 834, 8023>>>>,
      <<8025, 8025, <<768, 8027, 769, 8029, 834, 8031>>>>,
      <<8032, 8032, <<768, 8034, 769, 8036, 834, 8038, 837, 8096>>>>,
      <<8033, 8033, <<768, 8035, 769, 8037, 834, 8039, 837, 8097>>>>,
      <<8034, 8034, <<837, 8098>>>>, <<8035, 8035, <<837, 8099>>>>,
      <<8036, 8036, <<837, 8100>>>>, <<8037, 8037, <<837, 8101>>>>,
      <<8038, 8038, <<837, 8102>>>>, <<8039, 8039, <<837, 8103>>>>,
      <<8040, 8040, <<768, 8042, 769, 8044, 834, 8046, 837, 8104>>>>,
      <<8041, 8041, <<768, 8043, 769, 8045, 834, 8047, 837, 8105>>>>,
      <<8042, 8042, <<837, 8106>>>>, <<8043, 8043, <<837, 8107>>>>,
      <<8044, 8044, <<837, 8108>>>>, <<8045, 8045, <<837, 8109>>>>,
      <<8046, 8046, <<837, 8110>>>>, <<8047, 8047, <<837, 8111>>>>,
      <<8048, 8048, <<837, 8114>>>>, <<8052, 8052, <<837, 8130>>>>,
      <<8060, 8060, <<837, 8178>>>>, <<8118, 8118, <<837, 8119>>>>,
      <<8127, 8127, <<768, 8141, 769, 8142, 834, 8143>>>>, <<8134, 8134, <<837, 8135>>>>,
      <<8182, 8182, <<837, 8183>>>>, <<8190, 8190, <<768, 8157, 769, 8158, 834, 8159>>>>,
      <<8592, 8592, <<824, 8602>>>>, <<8594, 8594, <<824, 8603>>>>,
      <<8596, 8596, <<824, 8622>>>>, <<8656, 8656, <<824, 8653>>>>,
      <<8658, 8658, <<824, 8655>>>>, <<8660, 8660, <<824, 8654>>>>,
      <<8707, 8707, <<824, 8708>>>>, <<8712, 8712, <<824, 8713>>>>,
      <<8715, 8715, <<824, 8716>>>>, <<8739, 8739, <<824, 8740>>>>,
      <<8741, 8741, <<824, 8742>>>>, <<8764, 8764, <<824, 8769>>>>,
      <<8771, 8771, <<824, 8772>>>>, <<8773, 8773, <<824, 8775>>>>,
      <<8776, 8776, <<824, 8777>>>>, <<8781, 8781, <<824, 8813>>>>,
      <<8801, 8801, <<824, 8802>>>>, <<8804, 8804, <<824, 8816>>>>,
      <<8805, 8805, <<824, 8817>>>>, <<8818, 8818, <<824, 8820>>>>,
      <<8819, 8819, <<824, 8821>>>>, <<8822, 8822, <<824, 8824>>>>,
      <<8823, 8823, <<824, 8825>>>>, <<8826, 8826, <<824, 8832>>>>,
      <<8827, 8827, <<824, 8833>>>>, <<8828, 8828, <<824, 8928>>>>,
      <<8829, 8829, <<824, 8929>>>>, <<8834, 8834, <<824, 8836>>>>,
      <<8835, 8835, <<824, 8837>>>>, <<8838, 8838, <<824, 8840>>>>,
      <<8839, 8839, <<824, 8841>>>>, <<8849, 8849, <<824, 8930>>>>,
      <<8850, 8850, <<824, 8931>>>>, <<8866, 8866, <<824, 8876>>>>,
      <<8872, 8872, <<824, 8877>>>>, <<8873, 8873, <<824, 8878>>>>,
      <<8875, 8875, <<824, 8879>>>>, <<8882, 8882, <<824, 8938>>>>,
      <<8883, 8883, <<824, 8939>>>>, <<8884, 8884, <<824, 8940>>>>,
      <<8885, 8885, <<824, 8941>>>>, <<12358, 12358, <<12441, 12436>>>>,
      <<12363, 12363, <<12441, 12364>>>>, <<12365, 12365, <<12441, 12366>>>>,
      <<12367, 12367, <<12441, 12368>>>>, <<12369, 12369, <<12441, 12370>>>>,
      <<12371, 12371, <<12441, 12372>>>>, <<12373, 12373, <<12441, 12374>>>>,
      <<12375, 12375, <<12441, 12376>>>>, <<12377, 12377, <<12441, 12378>>>>,
      <<12379, 12379, <<12441, 12380>>>>, <<12381, 12381, <<12441, 12382>>>>,
      <<12383, 12383, <<12441, 12384>>>>, <<12385, 12385, <<12441, 12386>>>>,
      <<12388, 12388, <<12441, 12389>>>>, <<12390, 12390, <<12441, 12391>>>>,
      <<12392, 12392, <<12441, 12393>>>>, <<12399, 12399, <<12441, 12400, 12442, 12401>>>>,
      <<12402, 12402, <<12441, 12403, 12442, 12404>>>>,
      <<12405, 12405, <<12441, 12406, 12442, 12407>>>>,
      <<12408, 12408, <<12441, 12409, 12442, 12410>>>>,
      <<12411, 12411, <<12441, 12412, 12442, 12413>>>>, <<12445, 12445, <<12441, 12446>>>>,
      <<12454, 12454, <<12441, 12532>>>>, <<12459, 12459, <<12441, 12460>>>>,
      <<12461, 12461, <<12441, 12462>>>>, <<12463, 12463, <<12441, 12464>>>>,
      <<12465, 12465, <<12441, 12466>>>>, <<12467, 12467, <<12441, 12468>>>>,
      <<12469, 12469, <<12441, 12470>>>>, <<12471, 12471, <<12441, 12472>>>>,
      <<12473, 12473, <<12441, 12474>>>>, <<12475, 12475, <<12441, 12476>>>>,
      <<12477, 12477, <<12441, 12478>>>>, <<12479, 12479, <<12441, 12480>>>>,
      <<12481, 12481, <<12441, 12482>>>>, <<12484, 12484, <<12441, 12485>>>>,
      <<12486, 12486, <<12441, 12487>>>>, <<12488, 12488, <<12441, 12489>>>>,
      <<12495, 12495, <<12441, 12496, 12442, 12497>>>>,
      <<12498, 12498, <<12441, 12499, 12442, 12500>>>>,
      <<12501, 12501, <<12441, 12502, 12442, 12503>>>>,
      <<12504, 12504, <<12441, 12505, 12442, 12506>>>>,
      <<12507, 12507, <<12441, 12508, 12442, 12509>>>>, <<12527, 12527, <<12441, 12535>>>>,
      <<12528, 12528, <<12441, 12536>>>>, <<12529, 12529, <<12441, 12537>>>>,
      <<12530, 12530, <<12441, 12538>>>>, <<12541, 12541, <<12441, 12542>>>>,
      <<69785, 69785, <<69818, 69786>>>>, <<69787, 69787, <<69818, 69788>>>>,
      <<69797, 69797, <<69818, 69803>>>>, <<69937, 69937, <<69927, 69934>>>>,
      <<69938, 69938, <<69927, 69935>>>>, <<70471, 70471, <<70462, 70475, 70487, 70476>>>>,
      <<70841, 70841, <<70832, 70844, 70842, 70843, 70845, 70846>>>>,
      <<71096, 71096, <<71087, 71098>>>>, <<71097, 71097, <<71087, 71099>>>>,
      <<71989, 71989, <<71984, 71992>>>> >>

\* the last entry of a table, sorted by first component, that starts at or
\* before cp, between the positions lo and hi; lo - 1 when there is none
RECURSIVE TableIndex(_, _, _, _)
TableIndex(table, cp, lo, hi) ==
    IF lo > hi THEN hi
    ELSE IF table[(lo + hi) \div 2][1] <= cp
    THEN TableIndex(table, cp, ((lo + hi) \div 2) + 1, hi)
    ELSE TableIndex(table, cp, lo, ((lo + hi) \div 2) - 1)

\* the value of entry k of a table of ranges when cp is in the range
RangeValueAt(table, cp, k, default) ==
    IF k > 0 /\ cp <= table[k][2] THEN table[k][3] ELSE default

RangeValue(table, cp, default) ==
    RangeValueAt(table, cp, TableIndex(table, cp, 1, Len(table)), default)

CombiningClass(cp, ucd) == RangeValue(ucd.ccc, cp, 0)
IsMark(cp, ucd) == RangeValue(ucd.marks, cp, FALSE)
BidiClass(cp, ucd) == RangeValue(ucd.bidi, cp, "L")
JoiningType(cp, ucd) == RangeValue(ucd.joining, cp, "U")

IsAscii(cps) == \A k \in 1..Len(cps) : cps[k] < 128

\* the entry of the mapping table for a code point
IdnaEntry(cp, ucd) == ucd.idna[TableIndex(ucd.idna, cp, 1, Len(ucd.idna))]

\* the mapping of a code point under entry e: its replacement, <<>> when it
\* is ignored, <<-1>> when it is disallowed
IdnaMapBy(cp, e) ==
    IF e[2] = 0 THEN <<>>
    ELSE IF e[2] = 1 THEN <<cp>>
    ELSE IF e[2] = 2 THEN <<-1>>
    ELSE e[3]

IdnaMap(cp, ucd) == IdnaMapBy(cp, IdnaEntry(cp, ucd))

DomainFailure == [ok |-> FALSE, codes |-> <<>>]

\* the mapping step: a disallowed code point is an error
MappedOf(codes) ==
    IF \E k \in 1..Len(codes) : codes[k] = -1 THEN DomainFailure
    ELSE [ok |-> TRUE, codes |-> codes]

Map(cps, ucd) == MappedOf(Flatten([k \in 1..Len(cps) |-> IdnaMap(cps[k], ucd)]))

(* Normalization Form C                                                    *)
IsHangulSyllable(cp) == cp >= 44032 /\ cp <= 55203

\* a Hangul syllable as its leading consonant, vowel and trailing consonant
HangulDecomposition(s) ==
    <<4352 + (s \div 588), 4449 + ((s % 588) \div 28)>>
    \o (IF s % 28 = 0 THEN <<>> ELSE <<4519 + (s % 28)>>)

Decomposition(cp, ucd) ==
    IF IsHangulSyllable(cp) THEN HangulDecomposition(cp - 44032)
    ELSE RangeValue(ucd.decompositions, cp, <<cp>>)

Decompose(cps, ucd) == Flatten([k \in 1..Len(cps) |-> Decomposition(cps[k], ucd)])

\* cp of combining class cc is put after out, before the marks of a higher
\* class that end out
RECURSIVE InsertMark(_, _, _, _)
InsertMark(out, cp, cc, ucd) ==
    IF cc > 0 /\ Len(out) > 0 /\ CombiningClass(out[Len(out)], ucd) > cc
    THEN Append(InsertMark(SubSeq(out, 1, Len(out) - 1), cp, cc, ucd), out[Len(out)])
    ELSE Append(out, cp)

\* the canonical ordering of the combining marks
RECURSIVE Reorder(_, _, _)
Reorder(cps, out, ucd) ==
    IF Len(cps) = 0 THEN out
    ELSE Reorder(Tail(cps), InsertMark(out, cps[1], CombiningClass(cps[1], ucd), ucd), ucd)

\* the composite in the list <<second, composite, ...>> of a first code
\* point, or -1
RECURSIVE CompositeIn(_, _, _)
CompositeIn(list, k, b) ==
    IF k > Len(list) THEN -1
    ELSE IF list[k] = b THEN list[k + 1]
    ELSE CompositeIn(list, k + 2, b)

\* the primary composite of the pair a, b, or -1
ComposePair(a, b, ucd) ==
    IF a >= 4352 /\ a < 4371 /\ b >= 4449 /\ b < 4470
    THEN 44032 + ((a - 4352) * 21 + (b - 4449)) * 28
    ELSE IF IsHangulSyllable(a) /\ (a - 44032) % 28 = 0 /\ b > 4519 /\ b < 4547
    THEN a + (b - 4519)
    ELSE CompositeIn(RangeValue(ucd.compositions, a, <<>>), 1, b)

RECURSIVE ComposeLoop(_, _, _, _, _)
\* the code point c of class cc, whose composite with the last starter is p
\* (-1 when there is none or c is blocked from the starter)
ComposeNext(cps, out, starter, last, c, cc, p, ucd) ==
    IF p >= 0
    THEN ComposeLoop(Tail(cps), [out EXCEPT ![starter] = p], starter, last, ucd)
    ELSE ComposeLoop(Tail(cps), Append(out, c),
                     IF cc = 0 THEN Len(out) + 1 ELSE starter, cc, ucd)

\* canonical composition: starter is the position in out of the last
\* starter (0 when none), last the class of the last code point kept
ComposeLoop(cps, out, starter, last, ucd) ==
    IF Len(cps) = 0 THEN out
    ELSE ComposeNext(cps, out, starter, last, cps[1], CombiningClass(cps[1], ucd),
            IF starter = 0
               \/ (Len(out) # starter /\ last >= CombiningClass(cps[1], ucd))
            THEN -1
            ELSE ComposePair(out[starter], cps[1], ucd), ucd)

Normalize(cps, ucd) ==
    IF IsAscii(cps) THEN cps
    ELSE ComposeLoop(Reorder(Decompose(cps, ucd), <<>>, ucd), <<>>, 0, 0, ucd)

(* validity of a label                                                     *)
\* a virama, after which a joiner is allowed
Virama(cp, ucd) == RangeValue(ucd.virama, cp, FALSE)

\* the ContextJ rule at the first ZERO WIDTH NON-JOINER, at position k
NonJoinerOk(label, k, ucd) ==
    \/ k > 1 /\ Virama(label[k - 1], ucd)
    \/ /\ k > 1 /\ k < Len(label)
       /\ \E j \in 1..(k - 1) : JoiningType(label[j], ucd) \in {"L", "D"}
       /\ \E j \in (k + 1)..Len(label) : JoiningType(label[j], ucd) \in {"R", "D"}

\* the ContextJ rule at the first ZERO WIDTH JOINER, at position k
JoinerOk(label, k, ucd) == k > 1 /\ Virama(label[k - 1], ucd)

\* the position of the last code point that is not a nonspacing mark, or 0
LastNotNSM(label, ucd) ==
    IF \A k \in 1..Len(label) : BidiClass(label[k], ucd) = "NSM" THEN 0
    ELSE CHOOSE k \in 1..Len(label) :
            /\ BidiClass(label[k], ucd) # "NSM"
            /\ \A j \in (k + 1)..Len(label) : BidiClass(label[j], ucd) = "NSM"

IsRtlLabel(label, ucd) ==
    \E k \in 1..Len(label) : BidiClass(label[k], ucd) \in {"R", "AL", "AN"}

\* the Bidi rule on a label with a right-to-left character, last being the
\* position of its last code point that is not a nonspacing mark
BidiOk(label, last, ucd) ==
    IF BidiClass(label[1], ucd) = "L"
    THEN \A k \in 1..(last - 1) :
            BidiClass(label[k], ucd) \in {"L", "EN", "ES", "CS", "ET", "ON", "BN", "NSM"}
    ELSE /\ \A k \in 1..last :
               BidiClass(label[k], ucd) \in
                  {"R", "AL", "AN", "EN", "ES", "CS", "ET", "ON", "BN", "NSM"}
         /\ ~ /\ \E k \in 1..last : BidiClass(label[k], ucd) = "EN"
              /\ \E k \in 1..last : BidiClass(label[k], ucd) = "AN"
         /\ BidiClass(label[last], ucd) \in {"R", "AL", "AN", "EN"}

\* the checks after those of the joiners
DirectionOk(label, last, ucd) ==
    /\ last > 0
    /\ IsRtlLabel(label, ucd) => BidiOk(label, last, ucd)

IsLabelValid(label, ucd) ==
    IF Len(label) = 0 THEN TRUE
    ELSE IF IsMark(label[1], ucd) THEN FALSE
    ELSE IF \E k \in 1..Len(label) : label[k] \in {8204, 8205}
    THEN IF label[IndexOfAny(label, 1, {8204, 8205})] = 8204
         THEN NonJoinerOk(label, IndexOfAny(label, 1, {8204, 8205}), ucd)
         ELSE JoinerOk(label, IndexOfAny(label, 1, {8204, 8205}), ucd)
    ELSE DirectionOk(label, LastNotNSM(label, ucd), ucd)

\* the label a Punycode label decodes to, mapped: it must be left as it is
\* by the mapping and by the normalization, and be valid
XnMappedValid(out, mapped, ucd) ==
    /\ mapped.ok /\ mapped.codes = out
    /\ Normalize(out, ucd) = out
    /\ Len(out) > 0
    /\ IsLabelValid(out, ucd)

\* what the part of a label after "xn--" decodes to, when it decodes
XnDecodedValid(d, ucd) == d.ok /\ XnMappedValid(d.out, Map(d.out, ucd), ucd)

XnLabelValid(label, ucd) == XnDecodedValid(PunyDecode(SubSeq(label, 5, Len(label))), ucd)

IsXnLabel(label) == Len(label) >= 4 /\ SubSeq(label, 1, 4) = <<120, 110, 45, 45>>

\* a label of the mapped and normalized domain: an "xn--" label is decoded
\* and validated, another label with a character outside ASCII is
\* validated and encoded
DomainLabel(label, ucd) ==
    IF Len(label) = 0 THEN [ok |-> TRUE, codes |-> label]
    ELSE IF IsXnLabel(label)
    THEN IF IsAscii(label) /\ XnLabelValid(label, ucd)
         THEN [ok |-> TRUE, codes |-> label] ELSE DomainFailure
    ELSE IF IsAscii(label) THEN [ok |-> TRUE, codes |-> label]
    ELSE IF IsLabelValid(label, ucd)
    THEN [ok |-> TRUE, codes |-> <<120, 110, 45, 45>> \o PunyEncode(label)]
    ELSE DomainFailure

\* the processed labels joined by dots
DomainOfLabels(results) ==
    IF \E k \in 1..Len(results) : ~results[k].ok THEN DomainFailure
    ELSE [ok |-> TRUE,
          codes |-> JoinWith([k \in 1..Len(results) |-> results[k].codes], 46)]

LabelsToASCII(labels, ucd) ==
    DomainOfLabels([k \in 1..Len(labels) |-> DomainLabel(labels[k], ucd)])

\* the normalized domain: an empty one gives no label and an empty result,
\* which is an error
NormalizedToASCII(codes, ucd) ==
    IF Len(codes) = 0 THEN DomainFailure
    ELSE LabelsToASCII(SplitOn(codes, 46), ucd)

\* the mapped domain
MappedToASCII(mapped, ucd) ==
    IF ~mapped.ok THEN DomainFailure
    ELSE NormalizedToASCII(Normalize(mapped.codes, ucd), ucd)

\* an ASCII domain: lower case, and the "xn--" labels validated
AsciiToASCII(cps, ucd) ==
    IF \E k \in 1..Len(SplitOn(cps, 46)) :
          /\ IsXnLabel(SplitOn(cps, 46)[k])
          /\ ~XnLabelValid(SplitOn(cps, 46)[k], ucd)
    THEN DomainFailure
    ELSE [ok |-> Len(cps) > 0, codes |-> cps]

\* domain to ASCII with the character data ucd
ToASCII(cps, ucd) ==
    IF IsAscii(cps)
    THEN AsciiToASCII([k \in 1..Len(cps) |->
                          IF cps[k] >= 65 /\ cps[k] <= 90 THEN cps[k] + 32
                          ELSE cps[k]], ucd)
    ELSE MappedToASCII(Map(cps, ucd), ucd)

\* the character data of Unicode the domain mapping uses
UnicodeData ==
    [idna |-> IdnaTable, ccc |-> CombiningClasses, marks |-> Marks,
     virama |-> Viramas, bidi |-> BidiClasses, joining |-> JoiningTypes,
     decompositions |-> Decompositions, compositions |-> Compositions]

\* domain to ASCII
DomainToASCII(cps) == ToASCII(cps, UnicodeData)

(* IPv4                                                                    *)
\* a number of any length as its four low bytes and an overflow flag
RECURSIVE Ipv4Digits(_, _, _)
Ipv4Digits(s, R, v) ==
    IF Len(s) = 0 THEN v
    ELSE LET x4 == v.bytes[4] * R + HexCodeValue(s[1])
             x3 == v.bytes[3] * R + (x4 \div 256)
             x2 == v.bytes[2] * R + (x3 \div 256)
             x1 == v.bytes[1] * R + (x2 \div 256)
         IN  Ipv4Digits(Tail(s), R,
                [bytes |-> <<x1 % 256, x2 % 256, x3 % 256, x4 % 256>>,
                 over  |-> v.over \/ x1 >= 256])

\* the IPv4 number parser
Ipv4Number(s) ==
    LET hex == Len(s) >= 2 /\ s[1] = 48 /\ s[2] \in {88, 120}
        oct == ~hex /\ Len(s) >= 2 /\ s[1] = 48
        R == IF hex THEN 16 ELSE IF oct THEN 8 ELSE 10
        digits == IF hex THEN SubSeq(s, 3, Len(s))
                  ELSE IF oct THEN Tail(s) ELSE s
        zero == [bytes |-> <<0, 0, 0, 0>>, over |-> FALSE]
    IN  IF Len(s) = 0 THEN [ok |-> FALSE, value |-> zero]
        ELSE IF \E k \in 1..Len(digits) :
                   ~IsHexCode(digits[k]) \/ HexCodeValue(digits[k]) >= R
        THEN [ok |-> FALSE, value |-> zero]
        ELSE [ok |-> TRUE, value |-> Ipv4Digits(digits, R, zero)]

\* the parts of a dotted host, less one empty last part
Ipv4Parts(cps) ==
    LET parts == SplitOn(cps, 46)
    IN  IF Len(parts) > 1 /\ Len(parts[Len(parts)]) = 0
        THEN SubSeq(parts, 1, Len(parts) - 1)
        ELSE parts

\* the last part is a number
LastIsNumber(last) ==
    /\ Len(last) > 0
    /\ \/ \A k \in 1..Len(last) : last[k] >= 48 /\ last[k] <= 57
       \/ Ipv4Number(last).ok

LastPart(parts) == parts[Len(parts)]

\* the ends-in-a-number checker
EndsInNumber(cps) == LastIsNumber(LastPart(Ipv4Parts(cps)))

\* the address of the numbers of the parts, serialized: every number but
\* the last is a byte, the last fills the remaining bytes
Ipv4OfNumbers(nums, n) ==
    IF \E k \in 1..n : ~nums[k].ok \/ nums[k].value.over THEN DomainFailure
    ELSE IF \E k \in 1..(n - 1) : \E j \in 1..3 : nums[k].value.bytes[j] # 0
    THEN DomainFailure
    ELSE IF \E j \in 1..(n - 1) : nums[n].value.bytes[j] # 0 THEN DomainFailure
    ELSE [ok |-> TRUE,
          codes |-> JoinWith([j \in 1..4 |->
                                DecimalCodes(IF j < n THEN nums[j].value.bytes[4]
                                                      ELSE nums[n].value.bytes[j])],
                             46)]

Ipv4OfParts(parts) ==
    IF Len(parts) > 4 THEN DomainFailure
    ELSE Ipv4OfNumbers([k \in 1..Len(parts) |-> Ipv4Number(parts[k])], Len(parts))

\* the IPv4 parser and serializer
Ipv4Parse(cps) == Ipv4OfParts(Ipv4Parts(cps))

(* IPv6                                                                    *)
Ipv6Failure == [ok |-> FALSE, address |-> <<>>, pieceIndex |-> 0]

\* up to four hexadecimal digits from position p
RECURSIVE Ipv6Hex(_, _, _, _)
Ipv6Hex(s, p, value, length) ==
    IF length < 4 /\ p <= Len(s) /\ IsHexCode(s[p])
    THEN Ipv6Hex(s, p + 1, value * 16 + HexCodeValue(s[p]), length + 1)
    ELSE [value |-> value, length |-> length]

\* the dotted decimal tail of an address, from position p
RECURSIVE Ipv6Embedded(_, _, _, _, _)
Ipv6Embedded(s, p, address, pieceIndex, numbersSeen) ==
    IF p > Len(s)
    THEN IF numbersSeen = 4
         THEN [ok |-> TRUE, address |-> address, pieceIndex |-> pieceIndex]
         ELSE Ipv6Failure
    ELSE IF numbersSeen > 0 /\ ~(s[p] = 46 /\ numbersSeen < 4) THEN Ipv6Failure
    ELSE LET p1 == IF numbersSeen > 0 THEN p + 1 ELSE p
             e == IndexOfNot(s, p1, 48..57)
             piece == SubSeq(s, p1, e - 1)
             value == IF Len(piece) = 1 THEN piece[1] - 48
                      ELSE IF Len(piece) = 2
                      THEN (piece[1] - 48) * 10 + (piece[2] - 48)
                      ELSE (piece[1] - 48) * 100 + (piece[2] - 48) * 10
                           + (piece[3] - 48)
         IN  IF Len(piece) = 0 \/ Len(piece) > 3 THEN Ipv6Failure
             ELSE IF Len(piece) > 1 /\ piece[1] = 48 THEN Ipv6Failure
             ELSE IF value > 255 THEN Ipv6Failure
             ELSE Ipv6Embedded(s, e,
                     [address EXCEPT ![pieceIndex + 1] = @ * 256 + value],
                     IF numbersSeen + 1 \in {2, 4} THEN pieceIndex + 1
                                                   ELSE pieceIndex,
                     numbersSeen + 1)

\* the end of the IPv6 parser: the pieces after the compression go last
Ipv6Finish(address, pieceIndex, compress) ==
    IF compress = -1
    THEN IF pieceIndex = 8
         THEN [ok |-> TRUE, address |-> address, pieceIndex |-> 8]
         ELSE Ipv6Failure
    ELSE [ok |-> TRUE,
          address |-> [k \in 1..8 |->
                         IF k <= compress THEN address[k]
                         ELSE IF k <= 8 - (pieceIndex - compress) THEN 0
                         ELSE address[k - (8 - pieceIndex)]],
          pieceIndex |-> 8]

\* the end of the parser after the dotted decimal tail r
Ipv6AfterEmbedded(r, compress) ==
    IF ~r.ok THEN Ipv6Failure
    ELSE Ipv6Finish(r.address, r.pieceIndex, compress)

RECURSIVE Ipv6Loop(_, _, _, _, _)
\* the piece h, read from position p and ending before position q
RECURSIVE Ipv6Piece(_, _, _, _, _, _, _)
Ipv6Piece(s, p, address, pieceIndex, compress, h, q) ==
    IF q > Len(s)
    THEN Ipv6Loop(s, q, [address EXCEPT ![pieceIndex + 1] = h.value],
                  pieceIndex + 1, compress)
    ELSE IF s[q] = 46
    THEN IF h.length = 0 \/ pieceIndex > 6 THEN Ipv6Failure
         ELSE Ipv6AfterEmbedded(Ipv6Embedded(s, p, address, pieceIndex, 0), compress)
    ELSE IF s[q] = 58
    THEN IF q + 1 > Len(s) THEN Ipv6Failure
         ELSE Ipv6Loop(s, q + 1, [address EXCEPT ![pieceIndex + 1] = h.value],
                       pieceIndex + 1, compress)
    ELSE Ipv6Failure

RECURSIVE Ipv6AfterHex(_, _, _, _, _, _)
Ipv6AfterHex(s, p, address, pieceIndex, compress, h) ==
    Ipv6Piece(s, p, address, pieceIndex, compress, h, p + h.length)

Ipv6Loop(s, p, address, pieceIndex, compress) ==
    IF p > Len(s) THEN Ipv6Finish(address, pieceIndex, compress)
    ELSE IF pieceIndex = 8 THEN Ipv6Failure
    ELSE IF s[p] = 58
    THEN IF compress # -1 THEN Ipv6Failure
         ELSE Ipv6Loop(s, p + 1, address, pieceIndex + 1, pieceIndex + 1)
    ELSE Ipv6AfterHex(s, p, address, pieceIndex, compress, Ipv6Hex(s, p, 0, 0))

Ipv6Parse(s) ==
    LET zero == [k \in 1..8 |-> 0]
    IN  IF Len(s) > 0 /\ s[1] = 58
        THEN IF Len(s) < 2 \/ s[2] # 58 THEN Ipv6Failure
             ELSE Ipv6Loop(s, 3, zero, 1, 1)
        ELSE Ipv6Loop(s, 1, zero, 0, -1)

\* the first longest run of two or more zero pieces: <<start, length>>
Ipv6Compress(address) ==
    LET runs == { <<a, n>> \in (1..8) \X (2..8) :
                    /\ a + n - 1 <= 8
                    /\ \A k \in a..(a + n - 1) : address[k] = 0 }
    IN  IF runs = {} THEN <<0, 0>>
        ELSE CHOOSE r \in runs :
                \A r2 \in runs : r[2] > r2[2] \/ (r[2] = r2[2] /\ r[1] <= r2[1])

RECURSIVE Ipv6Serialize(_, _, _)
Ipv6Serialize(address, k, c) ==
    IF k > 8 THEN <<>>
    ELSE IF k = c[1]
    THEN (IF k = 1 THEN <<58, 58>> ELSE <<58>>)
         \o Ipv6Serialize(address, k + c[2], c)
    ELSE LowerHexCodes(address[k]) \o (IF k < 8 THEN <<58>> ELSE <<>>)
         \o Ipv6Serialize(address, k + 1, c)

(* the host parser                                                         *)
SchemeChars == Letters \cup Digits \cup {"+", "-", "."}
FileScheme == <<"f", "i", "l", "e">>
SpecialSchemes ==
    { <<"h", "t", "t", "p">>, <<"h", "t", "t", "p", "s">>, <<"w", "s">>,
      <<"w", "s", "s">>, <<"f", "t", "p">>, FileScheme }

\* forbidden host code points
ForbiddenHostChars ==
    { "U0000", "\t", "\n", "\r", " ", "#", "/", ":", "<", ">", "?", "@", "[",
      "\\", "]", "^", "|" }

\* forbidden domain code points: those, the C0 controls, % and U+007F
ForbiddenDomainCodes ==
    { CodePoint(c) : c \in ForbiddenHostChars } \cup (0..31) \cup {37, 127}

ParseFailure == [ok |-> FALSE, hostname |-> <<>>]

\* the opaque-host parser: C0 controls and characters over U+007E are
\* percent-encoded
OpaqueHost(input) ==
    IF \E k \in 1..Len(input) : input[k] \in ForbiddenHostChars THEN ParseFailure
    ELSE [ok |-> TRUE,
          hostname |-> Flatten([k \in 1..Len(input) |->
              LET cp == CodePoint(input[k])
                  bytes == Utf8Encode(cp)
              IN  IF cp >= 32 /\ cp <= 126 THEN <<input[k]>>
                  ELSE AsciiStr(Flatten([j \in 1..Len(bytes) |->
                                            PercentEncodeByte(bytes[j])]))])]

\* the address r in brackets
Ipv6HostOf(r) ==
    IF ~r.ok THEN ParseFailure
    ELSE [ok |-> TRUE,
          hostname |-> <<"[">>
              \o AsciiStr(Ipv6Serialize(r.address, 1, Ipv6Compress(r.address)))
              \o <<"]">>]

\* the host parser on a host in brackets
Ipv6Host(input) ==
    IF input[Len(input)] # "]" THEN ParseFailure
    ELSE Ipv6HostOf(Ipv6Parse([k \in 1..(Len(input) - 2) |-> CodePoint(input[k + 1])]))

Ipv4HostOf(ipv4) ==
    IF ipv4.ok THEN [ok |-> TRUE, hostname |-> AsciiStr(ipv4.codes)]
    ELSE ParseFailure

\* the host of an ASCII domain: no forbidden code point, and an IPv4 address
\* when it ends in a number
AsciiDomainHost(domain) ==
    IF ~domain.ok THEN ParseFailure
    ELSE IF \E k \in 1..Len(domain.codes) : domain.codes[k] \in ForbiddenDomainCodes
    THEN ParseFailure
    ELSE IF EndsInNumber(domain.codes) THEN Ipv4HostOf(Ipv4Parse(domain.codes))
    ELSE [ok |-> TRUE, hostname |-> AsciiStr(domain.codes)]

\* the host parser on the host of a special URL
DomainHost(input) ==
    AsciiDomainHost(DomainToASCII(Utf8Decode(PercentDecode(input))))

HostParser(input, isOpaque) ==
    IF Len(input) > 0 /\ input[1] = "[" THEN Ipv6Host(input)
    ELSE IF isOpaque THEN OpaqueHost(input)
    ELSE DomainHost(input)

\* the port: decimal digits of a number up to 65535
RECURSIVE PortValue(_, _)
PortValue(port, acc) ==
    IF Len(port) = 0 THEN acc
    ELSE LET v == acc * 10 + (CodePoint(port[1]) - 48)
         IN  PortValue(Tail(port), IF v > 65535 THEN 65536 ELSE v)

PortOk(port) ==
    /\ \A k \in 1..Len(port) : port[k] \in Digits
    /\ PortValue(port, 0) <= 65535

\* position k of s lies inside brackets
InsideBrackets(s, k) ==
    LET b == { j \in 1..(k - 1) : s[j] \in {"[", "]"} }
    IN  b # {} /\ s[CHOOSE j \in b : \A j2 \in b : j >= j2] = "["

\* the authority, host and port states on the authority of a URL
ParseHost(authority, special) ==
    LET at == LastIndexOf(authority, "@")
        hostport == SubSeq(authority, at + 1, Len(authority))
        colons == { k \in 1..Len(hostport) :
                      hostport[k] = ":" /\ ~InsideBrackets(hostport, k) }
        colon == IF colons = {} THEN Len(hostport) + 1
                 ELSE CHOOSE k \in colons : \A j \in colons : k <= j
        host == SubSeq(hostport, 1, colon - 1)
        port == SubSeq(hostport, colon + 1, Len(hostport))
    IN  IF at > 0 /\ Len(hostport) = 0 THEN ParseFailure
        ELSE IF Len(host) = 0 /\ (special \/ colon <= Len(hostport))
        THEN ParseFailure
        ELSE IF ~PortOk(port) THEN ParseFailure
        ELSE HostParser(host, ~special)

\* the host of a file URL: localhost is the empty host
FileHostOf(host) ==
    IF ~host.ok THEN ParseFailure
    ELSE IF host.hostname = <<"l", "o", "c", "a", "l", "h", "o", "s", "t">>
    THEN [ok |-> TRUE, hostname |-> <<>>]
    ELSE host

\* the file host state on its buffer: a Windows drive letter is no host
FileHost(buffer) ==
    IF Len(buffer) = 0 THEN [ok |-> TRUE, hostname |-> <<>>]
    ELSE IF /\ Len(buffer) = 2 /\ buffer[1] \in Letters
            /\ buffer[2] \in {":", "|"}
    THEN [ok |-> TRUE, hostname |-> <<>>]
    ELSE FileHostOf(HostParser(buffer, FALSE))

\* the file, file slash and file host states
ParseFileHost(rest) ==
    IF Len(rest) >= 2 /\ rest[1] \in {"/", "\\"} /\ rest[2] \in {"/", "\\"}
    THEN FileHost(SubSeq(rest, 3, IndexOfAny(rest, 3, {"/", "\\", "?", "#"}) - 1))
    ELSE [ok |-> TRUE, hostname |-> <<>>]

\* leading and trailing C0 controls and spaces, and ASCII tabs and newlines
C0ControlOrSpace == { AsciiChars[k] : k \in 1..33 }
TabOrNewline == {"\t", "\n", "\r"}

RECURSIVE StripStart(_, _)
StripStart(s, S) ==
    IF Len(s) > 0 /\ s[1] \in S THEN StripStart(Tail(s), S) ELSE s

RECURSIVE StripEnd(_, _)
StripEnd(s, S) ==
    IF Len(s) > 0 /\ s[Len(s)] \in S
    THEN StripEnd(SubSeq(s, 1, Len(s) - 1), S)
    ELSE s

ParseURL(u) ==
    LET stripped == StripEnd(StripStart(u, C0ControlOrSpace), C0ControlOrSpace)
        input == SelectSeq(stripped, LAMBDA c : c \notin TabOrNewline)
        colon == IndexOfNot(input, 1, SchemeChars)
    IN  IF Len(input) = 0 \/ input[1] \notin Letters THEN ParseFailure
        ELSE IF colon > Len(input) \/ input[colon] # ":" THEN ParseFailure
        ELSE LET scheme == ToLowerStr(SubSeq(input, 1, colon - 1))
                 special == scheme \in SpecialSchemes
                 rest == SubSeq(input, colon + 1, Len(input))
             IN  IF scheme = FileScheme THEN ParseFileHost(rest)
                 ELSE IF special
                 THEN LET a == IndexOfNot(rest, 1, {"/", "\\"})
                          e == IndexOfAny(rest, a, {"/", "\\", "?", "#"})
                      IN  ParseHost(SubSeq(rest, a, e - 1), TRUE)
                 ELSE IF StartsWith(rest, <<"/", "/">>)
                 THEN LET e == IndexOfAny(rest, 3, {"/", "?", "#"})
                      IN  ParseHost(SubSeq(rest, 3, e - 1), FALSE)
                 ELSE [ok |-> TRUE, hostname |-> <<>>]

validHosts ==
    { <<"w", "w", "w", ".", "y", "o", "u", "t", "u", "b", "e", ".", "c", "o", "m">>,
      <<"y", "o", "u", "t", "u", "b", "e", ".", "c", "o", "m">>,
      <<"y", "o", "u", "t", "u", ".", "b", "e">>,
      <<"m", ".", "y", "o", "u", "t", "u", "b", "e", ".", "c", "o", "m">> }

\* mutant of isValidYouTubeUrl: the URL is not parsed
isValidYouTubeUrlUnparsed(u) == extractVideoId(u) # None

isValidYouTubeUrl(u) ==
    IF Len(u) = 0 THEN FALSE
    ELSE LET parsedUrl == ParseURL(u)
         IN  IF ~parsedUrl.ok THEN FALSE
             ELSE IF parsedUrl.hostname \notin validHosts THEN FALSE
             ELSE extractVideoId(u) # None

\* inputs of the URL functions
BaseId == <<"d", "Q", "w", "4", "w", "9", "W", "g", "X", "c", "Q">>
IdSample == {"a", "Z", "0", "_", "-"}

\* well-formed identifiers: BaseId with its first IdVarLen characters varied
WellFormedIds ==
    { v \o SubSeq(BaseId, IdVarLen + 1, ID_LENGTH) : v \in [1..IdVarLen -> IdSample] }

\* too short, and with a character outside the identifier alphabet
IllFormedIds ==
    { SubSeq(BaseId, 1, ID_LENGTH - 1),
      <<"!">> \o SubSeq(BaseId, 2, ID_LENGTH) }

\* the four recognized shapes of section 4.1
WatchUrl(id) == <<"h", "t", "t", "p", "s", ":", "/", "/", "w", "w", "w", ".", "y", "o", "u", "t", "u", "b", "e", ".", "c", "o", "m", "/", "w", "a", "t", "c", "h", "?", "v", "=">> \o id
ShortUrl(id) == <<"h", "t", "t", "p", "s", ":", "/", "/", "y", "o", "u", "t", "u", ".", "b", "e", "/">> \o id
EmbedUrl(id) == <<"h", "t", "t", "p", "s", ":", "/", "/", "w", "w", "w", ".", "y", "o", "u", "t", "u", "b", "e", ".", "c", "o", "m", "/", "e", "m", "b", "e", "d", "/">> \o id
VUrl(id) == <<"h", "t", "t", "p", "s", ":", "/", "/", "w", "w", "w", ".", "y", "o", "u", "t", "u", "b", "e", ".", "c", "o", "m", "/", "v", "/">> \o id

RecognizedUrls(id) == { WatchUrl(id), ShortUrl(id), EmbedUrl(id), VUrl(id) }

\* other prefixes on an allowed host
AllowedHostPrefixes ==
    { <<"h", "t", "t", "p", "s", ":", "/", "/", "m", ".", "y", "o", "u", "t", "u", "b", "e", ".", "c", "o", "m", "/", "w", "a", "t", "c", "h", "?", "v", "=">>,
      <<"h", "t", "t", "p", "s", ":", "/", "/", "y", "o", "u", "t", "u", "b", "e", ".", "c", "o", "m", "/", "w", "a", "t", "c", "h", "?", "v", "=">>,
      <<"h", "t", "t", "p", ":", "/", "/", "y", "o", "u", "t", "u", ".", "b", "e", "/">>,
      <<"h", "t", "t", "p", "s", ":", "/", "/", "W", "W", "W", ".", "Y", "O", "U", "T", "U", "B", "E", ".", "C", "O", "M", "/", "w", "a", "t", "c", "h", "?", "v", "=">>,
      <<"h", "t", "t", "p", "s", ":", "/", "/", "w", "w", "w", ".", "y", "o", "u", "t", "u", "b", "e", ".", "c", "o", "m", "/", "w", "a", "t", "c", "h", "?", "t", "=", "1", "&", "v", "=">>,
      <<"h", "t", "t", "p", "s", ":", "/", "/", "w", "w", "w", ".", "y", "o", "u", "t", "u", "b", "e", ".", "c", "o", "m", "/", "s", "h", "o", "r", "t", "s", "/">> }

\* prefixes whose host is not in validHosts; the last three have a label that
\* IDNA maps (U+1E9E, to "ss"), a Punycode label of ASCII only ("xn--a-")
\* and a Punycode label of U+0898, a mark the label check does not list
DisallowedHostPrefixes ==
    { <<"h", "t", "t", "p", "s", ":", "/", "/", "e", "x", "a", "m", "p", "l", "e", ".", "c", "o", "m", "/", "w", "a", "t", "c", "h", "?", "v", "=">>,
      <<"h", "t", "t", "p", "s", ":", "/", "/", "n", "o", "t", "y", "o", "u", "t", "u", "b", "e", ".", "c", "o", "m", "/", "w", "a", "t", "c", "h", "?", "v", "=">>,
      <<"h", "t", "t", "p", "s", ":", "/", "/", "m", "u", "s", "i", "c", ".", "y", "o", "u", "t", "u", "b", "e", ".", "c", "o", "m", "/", "w", "a", "t", "c", "h", "?", "v", "=">>,
      <<"h", "t", "t", "p", "s", ":", "/", "/", "e", "x", "a", "m", "p", "l", "e", ".", "c", "o", "m", "/", "y", "o", "u", "t", "u", "b", "e", ".", "c", "o", "m", "/", "e", "m", "b", "e", "d", "/">>,
      <<"h", "t", "t", "p", "s", ":", "/", "/", "e", "v", "i", "l", ".", "c", "o", "m", "/", "?", "u", "=", "y", "o", "u", "t", "u", ".", "b", "e", "/">>,
      <<"h", "t", "t", "p", "s", ":", "/", "/", "y", "o", "u", "t", "u", ".", "b", "e", "@", "e", "v", "i", "l", ".", "c", "o", "m", "/", "y", "o", "u", "t", "u", ".", "b", "e", "/">>,
      <<"h", "t", "t", "p", "s", ":", "/", "/", "U1E9E", ".", "y", "o", "u", "t", "u", ".", "b", "e", "/", "y", "o", "u", "t", "u", ".", "b", "e", "/">>,
      <<"h", "t", "t", "p", "s", ":", "/", "/", "x", "n", "-", "-", "a", "-", ".", "y", "o", "u", "t", "u", ".", "b", "e", "/", "y", "o", "u", "t", "u", ".", "b", "e", "/">>,
      <<"h", "t", "t", "p", "s", ":", "/", "/", "x", "n", "-", "-", "h", "y", "b", ".", "y", "o", "u", "t", "u", ".", "b", "e", "/", "y", "o", "u", "t", "u", ".", "b", "e", "/">> }

\* prefixes on an allowed host that new URL normalizes: a tab inside the
\* host, a percent-encoded dot, the file scheme, a port, a letter that IDNA
\* maps to y (U+1D432 percent-encoded, U+FF59), an ignored variation
\* selector (U+FE0F)
NormalizedHostPrefixes ==
    { <<"h", "t", "t", "p", "s", ":", "/", "/", "w", "\t", "w", "w", ".", "y", "o", "u", "t", "u", "b", "e", ".", "c", "o", "m", "/", "w", "a", "t", "c", "h", "?", "v", "=">>,
      <<"h", "t", "t", "p", "s", ":", "/", "/", "w", "w", "w", "%", "2", "E", "y", "o", "u", "t", "u", "b", "e", ".", "c", "o", "m", "/", "w", "a", "t", "c", "h", "?", "v", "=">>,
      <<"f", "i", "l", "e", ":", "/", "/", "W", "W", "W", ".", "Y", "O", "U", "T", "U", "B", "E", ".", "C", "O", "M", "/", "w", "a", "t", "c", "h", "?", "v", "=">>,
      <<"h", "t", "t", "p", "s", ":", "/", "/", "y", "o", "u", "t", "u", ".", "b", "e", ":", "4", "4", "3", "/">>,
      <<"h", "t", "t", "p", "s", ":", "/", "/", "%", "F", "0", "%", "9", "D", "%", "9", "0", "%", "B", "2", "o", "u", "t", "u", ".", "b", "e", "/", "y", "o", "u", "t", "u", ".", "b", "e", "/">>,
      <<"h", "t", "t", "p", "s", ":", "/", "/", "UFF59", "o", "u", "t", "u", ".", "b", "e", "/", "y", "o", "u", "t", "u", ".", "b", "e", "/">>,
      <<"h", "t", "t", "p", "s", ":", "/", "/", "y", "o", "u", "%", "E", "F", "%", "B", "8", "%", "8", "F", "t", "u", ".", "b", "e", "/", "y", "o", "u", "t", "u", ".", "b", "e", "/">> }

\* prefixes that new URL rejects: a port over 65535, a blank in the host,
\* a label "xn--a" that is no Punycode, a ZERO WIDTH NON-JOINER after U+0767
\* (not in the lists of joining letters) and before U+0628
UnparsablePrefixes ==
    { <<"h", "t", "t", "p", "s", ":", "/", "/", "y", "o", "u", "t", "u", ".", "b", "e", ":", "6", "5", "5", "3", "6", "/">>,
      <<"h", "t", "t", "p", "s", ":", "/", "/", "w", "w", "w", ".", "y", "o", "u", "t", "u", "b", "e", ".", "c", "o", "m", " ", "/", "w", "a", "t", "c", "h", "?", "v", "=">>,
      <<"h", "t", "t", "p", "s", ":", "/", "/", "x", "n", "-", "-", "a", ".", "y", "o", "u", "t", "u", ".", "b", "e", "/", "y", "o", "u", "t", "u", ".", "b", "e", "/">>,
      <<"h", "t", "t", "p", "s", ":", "/", "/", "U0767", "U200C", "U0628", ".", "y", "o", "u", "t", "u", ".", "b", "e", "/", "y", "o", "u", "t", "u", ".", "b", "e", "/">> }

\* no scheme: not a URL
NoSchemePrefixes == { <<"y", "o", "u", "t", "u", "b", "e", ".", "c", "o", "m", "/", "w", "a", "t", "c", "h", "?", "v", "=">> }

UrlSuffixes == { <<>>, <<"&", "t", "=", "1", "2", "0">> }

FixedUrls ==
    { <<>>, <<" ">>, <<"n", "o", "t", "-", "a", "-", "u", "r", "l">>, <<"h", "t", "t", "p", "s", ":", "/", "/", "e", "x", "a", "m", "p", "l", "e", ".", "c", "o", "m">> }

UrlInputs ==
    FixedUrls
    \cup UNION { RecognizedUrls(id) : id \in WellFormedIds \cup IllFormedIds }
    \cup { p \o id \o sfx :
             p \in AllowedHostPrefixes \cup DisallowedHostPrefixes
                   \cup NormalizedHostPrefixes \cup UnparsablePrefixes
                   \cup NoSchemePrefixes,
             id \in WellFormedIds \cup IllFormedIds,
             sfx \in UrlSuffixes }

UrlIdle == url = <<>> /\ urlPc = "idle" /\ videoId = None /\ valid = FALSE

UrlInit == url \in UrlInputs /\ urlPc = "start" /\ videoId = None /\ valid = FALSE

ExtractVideoId ==
    /\ urlPc = "start"
    /\ videoId' = extractVideoId(url)
    /\ urlPc' = "extracted"
    /\ UNCHANGED <<url, valid, fmtVars, selVars, prsVars, trVars, clsVars, srvVars>>

IsValidYouTubeUrl ==
    /\ urlPc = "extracted"
    /\ valid' = isValidYouTubeUrl(url)
    /\ urlPc' = "done"
    /\ UNCHANGED <<url, videoId, fmtVars, selVars, prsVars, trVars, clsVars, srvVars>>

(***************************************************************************)
(* The values of a decoded body (actions.ts:103): what JSON.parse builds,  *)
(* and undefined, the value of a property that is absent.  A number is an  *)
(* integer, a string a sequence of characters, an object the sequence of   *)
(* its members in the order of the text.                                   *)
(***************************************************************************)
JNull == [null |-> TRUE]
Undefined == [undefined |-> TRUE]
JBoolean(b) == [boolean |-> b]
JNumber(n) == [number |-> n]
JString(s) == [string |-> s]
JArray(items) == [array |-> items]
Member(name, v) == [name |-> name, value |-> v]
JObject(members) == [object |-> members]

\* typeof, with "null" for null and "array" for an array
TypeOf(v) == CHOOSE t \in DOMAIN v : TRUE

\* v.name for one of the names the code reads (events, segs, tStartMs,
\* dDurationMs, utf8), where v is neither null nor undefined: the member
\* of an object, the last one when the text repeats the name; no other
\* value has a property of these names
Get(v, name) ==
    IF TypeOf(v) # "object" THEN Undefined
    ELSE LET hits == { k \in 1..Len(v.object) : v.object[k].name = name }
         IN  IF hits = {} THEN Undefined
             ELSE v.object[CHOOSE k \in hits : \A j \in hits : j <= k].value

\* ToBoolean
Truthy(v) ==
    CASE TypeOf(v) \in {"null", "undefined"} -> FALSE
      [] TypeOf(v) = "boolean" -> v.boolean
      [] TypeOf(v) = "number" -> v.number # 0
      [] TypeOf(v) = "string" -> Len(v.string) > 0
      [] OTHER -> TRUE

\* the value a segment holds for a JSON value: the number of a number
Plain(v) == IF TypeOf(v) = "number" THEN v.number ELSE v

Err(name, message) == [name |-> name, message |-> message]
NoError == [name |-> "", message |-> <<>>]

\* how an evaluation ends: with a value, or with an exception
Returned(v) == [thrown |-> FALSE, value |-> v]
Thrown(e) == [thrown |-> TRUE, error |-> e]

(***************************************************************************)
(* fetchTranscriptFromUrl: decoding of the json3 events (actions.ts:105-133)*)
(***************************************************************************)
\* seg.utf8?.trim() || "": reading utf8 of null throws, and so does the
\* call of trim on a value that is neither null, undefined nor a string
SegText(seg) ==
    IF TypeOf(seg) = "null"
    THEN Thrown(Err("TypeError", <<"C", "a", "n", "n", "o", "t", " ", "r", "e", "a", "d", " ", "p", "r", "o", "p", "e", "r", "t", "i", "e", "s", " ", "o", "f", " ", "n", "u", "l", "l", " ", "(", "r", "e", "a", "d", "i", "n", "g", " ", "'", "u", "t", "f", "8", "'", ")">>))
    ELSE LET utf8 == Get(seg, "utf8")
         IN  IF TypeOf(utf8) \in {"null", "undefined"} THEN Returned(<<>>)
             ELSE IF TypeOf(utf8) = "string" THEN Returned(Trim(utf8.string))
             ELSE Thrown(Err("TypeError", <<"s", "e", "g", ".", "u", "t", "f", "8", "?", ".", "t", "r", "i", "m", " ", "i", "s", " ", "n", "o", "t", " ", "a", " ", "f", "u", "n", "c", "t", "i", "o", "n">>))

\* segs.map(...).filter((t) => t !== "").join(""), segs an array
RECURSIVE JoinSegs(_)
JoinSegs(segs) ==
    IF Len(segs) = 0 THEN Returned(<<>>)
    ELSE LET text == SegText(Head(segs))
         IN  IF text.thrown THEN text
             ELSE LET rest == JoinSegs(Tail(segs))
                  IN  IF rest.thrown THEN rest
                      ELSE Returned(text.value \o rest.value)

\* the segment pushed for an event whose joined text is text
Segment(event, text) ==
    [text |-> text,
     startMs |-> Plain(Get(event, "tStartMs")),
     durationMs |-> IF Truthy(Get(event, "dDurationMs"))
                    THEN Plain(Get(event, "dDurationMs")) ELSE 0]

\* mutant of EventSegments: the start time is tested for truthiness
EventSegmentsTruthyStart(event) ==
    IF TypeOf(event) = "null"
    THEN Thrown(Err("TypeError", <<"C", "a", "n", "n", "o", "t", " ", "r", "e", "a", "d", " ", "p", "r", "o", "p", "e", "r", "t", "i", "e", "s", " ", "o", "f", " ", "n", "u", "l", "l", " ", "(", "r", "e", "a", "d", "i", "n", "g", " ", "'", "s", "e", "g", "s", "'", ")">>))
    ELSE IF ~(Truthy(Get(event, "segs")) /\ Truthy(Get(event, "tStartMs")))
    THEN Returned(<<>>)
    ELSE IF TypeOf(Get(event, "segs")) # "array"
    THEN Thrown(Err("TypeError", <<"e", "v", "e", "n", "t", ".", "s", "e", "g", "s", ".", "m", "a", "p", " ", "i", "s", " ", "n", "o", "t", " ", "a", " ", "f", "u", "n", "c", "t", "i", "o", "n">>))
    ELSE LET text == JoinSegs(Get(event, "segs").array)
         IN  IF text.thrown THEN text
             ELSE IF Len(text.value) > 0
             THEN Returned(<<Segment(event, text.value)>>)
             ELSE Returned(<<>>)

\* mutant of EventSegments: an event whose text is empty still gives a
\* segment
EventSegmentsKeepBlank(event) ==
    IF TypeOf(event) = "null"
    THEN Thrown(Err("TypeError", <<"C", "a", "n", "n", "o", "t", " ", "r", "e", "a", "d", " ", "p", "r", "o", "p", "e", "r", "t", "i", "e", "s", " ", "o", "f", " ", "n", "u", "l", "l", " ", "(", "r", "e", "a", "d", "i", "n", "g", " ", "'", "s", "e", "g", "s", "'", ")">>))
    ELSE IF ~(Truthy(Get(event, "segs")) /\ Get(event, "tStartMs") # Undefined)
    THEN Returned(<<>>)
    ELSE IF TypeOf(Get(event, "segs")) # "array"
    THEN Thrown(Err("TypeError", <<"e", "v", "e", "n", "t", ".", "s", "e", "g", "s", ".", "m", "a", "p", " ", "i", "s", " ", "n", "o", "t", " ", "a", " ", "f", "u", "n", "c", "t", "i", "o", "n">>))
    ELSE LET text == JoinSegs(Get(event, "segs").array)
         IN  IF text.thrown THEN text
             ELSE Returned(<<Segment(event, text.value)>>)

\* the body of the loop (actions.ts:117-130) for one event: the segments it
\* pushes, none or one.  Reading segs of null throws, and so does the call
\* of map on a truthy segs that is not an array
EventSegments(event) ==
    IF TypeOf(event) = "null"
    THEN Thrown(Err("TypeError", <<"C", "a", "n", "n", "o", "t", " ", "r", "e", "a", "d", " ", "p", "r", "o", "p", "e", "r", "t", "i", "e", "s", " ", "o", "f", " ", "n", "u", "l", "l", " ", "(", "r", "e", "a", "d", "i", "n", "g", " ", "'", "s", "e", "g", "s", "'", ")">>))
    ELSE IF ~(Truthy(Get(event, "segs")) /\ Get(event, "tStartMs") # Undefined)
    THEN Returned(<<>>)
    ELSE IF TypeOf(Get(event, "segs")) # "array"
    THEN Thrown(Err("TypeError", <<"e", "v", "e", "n", "t", ".", "s", "e", "g", "s", ".", "m", "a", "p", " ", "i", "s", " ", "n", "o", "t", " ", "a", " ", "f", "u", "n", "c", "t", "i", "o", "n">>))
    ELSE LET text == JoinSegs(Get(event, "segs").array)
         IN  IF text.thrown THEN text
             ELSE IF Len(text.value) > 0
             THEN Returned(<<Segment(event, text.value)>>)
             ELSE Returned(<<>>)

\* the loop over the values of data.events and the return
\* (actions.ts:109-133): an exception ends the loop
RECURSIVE ParseEvents(_)
ParseEvents(events) ==
    IF Len(events) = 0 THEN Returned(<<>>)
    ELSE LET pushed == EventSegments(Head(events))
         IN  IF pushed.thrown THEN pushed
             ELSE LET rest == ParseEvents(Tail(events))
                  IN  IF rest.thrown THEN rest
                      ELSE Returned(pushed.value \o rest.value)

\* the values for (const event of events) runs over: the elements of an
\* array, the characters of a string; no other JSON value is iterable
Iterate(events) ==
    CASE TypeOf(events) = "array" -> Returned(events.array)
      [] TypeOf(events) = "string" ->
            Returned([k \in 1..Len(events.string) |-> JString(<<events.string[k]>>)])
      [] OTHER -> Thrown(Err("TypeError", <<"d", "a", "t", "a", ".", "e", "v", "e", "n", "t", "s", " ", "i", "s", " ", "n", "o", "t", " ", "i", "t", "e", "r", "a", "b", "l", "e">>))

\* fetchTranscriptFromUrl once response.json() gave data (actions.ts:105-133):
\* data.events of null throws, the test of 105 throws for a falsy
\* data.events, then the loop
DecodeData(data) ==
    IF TypeOf(data) = "null"
    THEN Thrown(Err("TypeError", <<"C", "a", "n", "n", "o", "t", " ", "r", "e", "a", "d", " ", "p", "r", "o", "p", "e", "r", "t", "i", "e", "s", " ", "o", "f", " ", "n", "u", "l", "l", " ", "(", "r", "e", "a", "d", "i", "n", "g", " ", "'", "e", "v", "e", "n", "t", "s", "'", ")">>))
    ELSE IF ~Truthy(Get(data, "events"))
    THEN Thrown(Err("Error", <<"N", "o", " ", "t", "r", "a", "n", "s", "c", "r", "i", "p", "t", " ", "e", "v", "e", "n", "t", "s", " ", "f", "o", "u", "n", "d">>))
    ELSE LET events == Iterate(Get(data, "events"))
         IN  IF events.thrown THEN events ELSE ParseEvents(events.value)

\* inputs of the decoding loop: events with and without start time,
\* duration and sub-segments, and values that are no well-formed event
EvTexts ==
    { None, Some(JString(<<" ">>)), Some(JString(<<"a", "\r">>)),
      Some(JString(<<"U3000", "b">>)) }
Optional(name, v) == IF v = None THEN <<>> ELSE <<Member(name, v[1])>>
EvSegs == { JObject(Optional("utf8", t)) : t \in EvTexts }
EvSegLists == { None } \cup { Some(JArray(ss)) : ss \in SeqsUpTo(EvSegs, 2) }
EvStartTimes == {None, Some(JNumber(0)), Some(JNumber(1200))}
EvDurations == {None, Some(JNumber(800))}
EvMalformed ==
    { JNull, JString(<<"a">>), JArray(<<>>),
      JObject(<<Member("tStartMs", JNull),
                Member("segs", JArray(<<JObject(<<Member("utf8", JString(<<"a">>))>>)>>))>>),
      JObject(<<Member("tStartMs", JNumber(0)), Member("segs", JObject(<<>>))>>),
      JObject(<<Member("segs", JObject(<<>>))>>),
      JObject(<<Member("tStartMs", JNumber(0)), Member("segs", JString(<<>>))>>),
      JObject(<<Member("tStartMs", JNumber(0)), Member("segs", JArray(<<JNull>>))>>),
      JObject(<<Member("tStartMs", JNumber(0)),
                Member("segs", JArray(<<JString(<<"a">>),
                                        JObject(<<Member("utf8", JNull)>>)>>))>>),
      JObject(<<Member("tStartMs", JNumber(0)),
                Member("segs", JArray(<<JObject(<<Member("utf8", JNumber(5))>>)>>))>>) }
EvEvents ==
    { JObject(Optional("tStartMs", t) \o Optional("dDurationMs", d)
              \o Optional("segs", ss)) :
        t \in EvStartTimes, d \in EvDurations, ss \in EvSegLists }
    \cup EvMalformed

PrsIdle == dataEvents = <<>> /\ parsed = <<>> /\ parsePc = "idle"

PrsInit ==
    /\ \E n \in 0..MaxEvents : dataEvents \in [1..n -> EvEvents]
    /\ parsed = <<>> /\ parsePc = "start"

\* the loop over data.events throws (actions.ts:116-131)
ParseThrows ==
    /\ parsePc = "start"
    /\ ParseEvents(dataEvents).thrown
    /\ parsePc' = "thrown"
    /\ UNCHANGED <<dataEvents, parsed, fmtVars, selVars, urlVars, trVars, clsVars, srvVars>>

\* the loop over data.events and the return (actions.ts:109-133)
ParseReturn ==
    /\ parsePc = "start"
    /\ ~ParseEvents(dataEvents).thrown
    /\ parsed' = ParseEvents(dataEvents).value
    /\ parsePc' = "done"
    /\ UNCHANGED <<dataEvents, fmtVars, selVars, urlVars, trVars, clsVars, srvVars>>

(***************************************************************************)
(* translateLanguageName (actions.ts:187-250)                              *)
(* The normalized marker is the six characters of the full-width           *)
(* parenthesised marker; a localized language name is one token "L_<name>".*)
(***************************************************************************)
AutoMarkerEn == <<"(", "a", "u", "t", "o", "-", "g", "e", "n", "e", "r", "a", "t", "e", "d", ")">>
AutoMarkerJa == <<"(", "U81EA", "U52D5", "U751F", "U6210", ")">>
NormalizedMarker == <<"FWLP", "U81EA", "U52D5", "U751F", "U6210", "FWRP">>

\* p matches at position k of s, ignoring case (the i flag)
MatchesAtNoCase(s, k, p) ==
    /\ k >= 1
    /\ k + Len(p) - 1 <= Len(s)
    /\ \A j \in 1..Len(p) : ToLower(s[k + j - 1]) = ToLower(p[j])

\* s.replace(/\s*lit/gi, by)
RECURSIVE ReplaceMarker(_, _, _)
ReplaceMarker(s, lit, by) ==
    IF Len(s) = 0 THEN <<>>
    ELSE LET w == IndexOfNot(s, 1, WhiteSpace)
         IN  IF MatchesAtNoCase(s, w, lit)
             THEN by \o ReplaceMarker(SubSeq(s, w + Len(lit), Len(s)), lit, by)
             ELSE <<Head(s)>> \o ReplaceMarker(Tail(s), lit, by)

\* s.replace(en, ja) with a string pattern: the first occurrence only
ReplaceFirst(s, en, ja) ==
    LET hits == { k \in 1..Len(s) : MatchesAt(s, k, en) }
    IN  IF hits = {} THEN s
        ELSE LET k == CHOOSE k0 \in hits : \A k1 \in hits : k0 <= k1
             IN  SubSeq(s, 1, k - 1) \o ja \o SubSeq(s, k + Len(en), Len(s))

\* Object.entries(languageMap), in insertion order
languageMap ==
    <<
       <<<<"J", "a", "p", "a", "n", "e", "s", "e">>, <<"L_Japanese">>>>,
       <<<<"E", "n", "g", "l", "i", "s", "h">>, <<"L_English">>>>,
       <<<<"C", "h", "i", "n", "e", "s", "e">>, <<"L_Chinese">>>>,
       <<<<"K", "o", "r", "e", "a", "n">>, <<"L_Korean">>>>,
       <<<<"S", "p", "a", "n", "i", "s", "h">>, <<"L_Spanish">>>>,
       <<<<"F", "r", "e", "n", "c", "h">>, <<"L_French">>>>,
       <<<<"G", "e", "r", "m", "a", "n">>, <<"L_German">>>>,
       <<<<"I", "t", "a", "l", "i", "a", "n">>, <<"L_Italian">>>>,
       <<<<"P", "o", "r", "t", "u", "g", "u", "e", "s", "e">>, <<"L_Portuguese">>>>,
       <<<<"R", "u", "s", "s", "i", "a", "n">>, <<"L_Russian">>>>,
       <<<<"A", "r", "a", "b", "i", "c">>, <<"L_Arabic">>>>,
       <<<<"H", "i", "n", "d", "i">>, <<"L_Hindi">>>>,
       <<<<"T", "h", "a", "i">>, <<"L_Thai">>>>,
       <<<<"V", "i", "e", "t", "n", "a", "m", "e", "s", "e">>, <<"L_Vietnamese">>>>,
       <<<<"I", "n", "d", "o", "n", "e", "s", "i", "a", "n">>, <<"L_Indonesian">>>>,
       <<<<"D", "u", "t", "c", "h">>, <<"L_Dutch">>>>,
       <<<<"P", "o", "l", "i", "s", "h">>, <<"L_Polish">>>>,
       <<<<"T", "u", "r", "k", "i", "s", "h">>, <<"L_Turkish">>>>,
       <<<<"S", "w", "e", "d", "i", "s", "h">>, <<"L_Swedish">>>>,
       <<<<"N", "o", "r", "w", "e", "g", "i", "a", "n">>, <<"L_Norwegian">>>>,
       <<<<"D", "a", "n", "i", "s", "h">>, <<"L_Danish">>>>,
       <<<<"F", "i", "n", "n", "i", "s", "h">>, <<"L_Finnish">>>>,
       <<<<"G", "r", "e", "e", "k">>, <<"L_Greek">>>>,
       <<<<"H", "e", "b", "r", "e", "w">>, <<"L_Hebrew">>>>,
       <<<<"C", "z", "e", "c", "h">>, <<"L_Czech">>>>,
       <<<<"R", "o", "m", "a", "n", "i", "a", "n">>, <<"L_Romanian">>>>,
       <<<<"H", "u", "n", "g", "a", "r", "i", "a", "n">>, <<"L_Hungarian">>>>,
       <<<<"U", "k", "r", "a", "i", "n", "i", "a", "n">>, <<"L_Ukrainian">>>>,
       <<<<"M", "a", "l", "a", "y">>, <<"L_Malay">>>>,
       <<<<"F", "i", "l", "i", "p", "i", "n", "o">>, <<"L_Filipino">>>>,
       <<<<"B", "e", "n", "g", "a", "l", "i">>, <<"L_Bengali">>>>,
       <<<<"T", "a", "m", "i", "l">>, <<"L_Tamil">>>>,
       <<<<"T", "e", "l", "u", "g", "u">>, <<"L_Telugu">>>>,
       <<<<"M", "a", "r", "a", "t", "h", "i">>, <<"L_Marathi">>>>,
       <<<<"G", "u", "j", "a", "r", "a", "t", "i">>, <<"L_Gujarati">>>>,
       <<<<"K", "a", "n", "n", "a", "d", "a">>, <<"L_Kannada">>>>,
       <<<<"P", "u", "n", "j", "a", "b", "i">>, <<"L_Punjabi">>>>,
       <<<<"U", "r", "d", "u">>, <<"L_Urdu">>>>
    >>

\* mutant of TranslateLoop: the table is searched from its end
RECURSIVE TranslateLoopReversed(_, _)
TranslateLoopReversed(translated, entries) ==
    IF Len(entries) = 0 THEN translated
    ELSE LET en == entries[Len(entries)][1]
             ja == entries[Len(entries)][2]
         IN  IF Includes(translated, en)
             THEN ReplaceFirst(translated, en, ja)
             ELSE TranslateLoopReversed(translated,
                                        SubSeq(entries, 1, Len(entries) - 1))

RECURSIVE TranslateLoop(_, _)
TranslateLoop(translated, entries) ==
    IF Len(entries) = 0 THEN translated
    ELSE LET en == Head(entries)[1]
             ja == Head(entries)[2]
         IN  IF translated = en \/ StartsWith(translated, en \o <<" ">>)
             THEN ReplaceFirst(translated, en, ja)
             ELSE IF Includes(translated, en)
             THEN ReplaceFirst(translated, en, ja)
             ELSE TranslateLoop(translated, Tail(entries))

translateLanguageName(languageName) ==
    TranslateLoop(
        ReplaceMarker(ReplaceMarker(languageName, AutoMarkerEn, NormalizedMarker),
                      AutoMarkerJa, NormalizedMarker),
        languageMap)

\* inputs of translateLanguageName: a language name, then a marker
TableNames == { languageMap[n][1] : n \in 1..Len(languageMap) }
OtherNames ==
    { <<>>, <<"K", "l", "i", "n", "g", "o", "n">>,
      <<"E", "n", "g", "l", "i", "s", "h", " ", "J", "a", "p", "a", "n", "e", "s", "e">>,
      <<"M", "a", "l", "a", "y", "a", "l", "a", "m">>,
      <<"j", "a", "p", "a", "n", "e", "s", "e">> }
AutoMarkers ==
    { <<" ">> \o AutoMarkerEn,
      <<"(", "A", "u", "t", "o", "-", "G", "e", "n", "e", "r", "a", "t", "e", "d", ")">>,
      <<" ", " ">> \o AutoMarkerJa }
TrInputs ==
    { n \o m : n \in TableNames \cup OtherNames, m \in AutoMarkers \cup {<<>>} }

TrIdle == trInput = <<>> /\ trOutput = <<>> /\ trPc = "idle"

TrInit == trInput \in TrInputs /\ trOutput = <<>> /\ trPc = "start"

TranslateReturn ==
    /\ trPc = "start"
    /\ trOutput' = translateLanguageName(trInput)
    /\ trPc' = "done"
    /\ UNCHANGED <<trInput, fmtVars, selVars, urlVars, prsVars, clsVars, srvVars>>

(***************************************************************************)
(* getInnertube and getTranscript                                          *)
(*                                                                         *)
(* An initialization is identified by its position in inits; the instance  *)
(* it creates carries the same number.  0 stands for null.  A step of the  *)
(* model is what runs between two suspension points of the code: the       *)
(* continuations of a settled promise run in the same microtask drain, so  *)
(* the settlement of Innertube.create and the resumption of the callers    *)
(* awaiting it are one step.                                               *)
(***************************************************************************)
Requests == 1..NumRequests

\* the getTranscript calls of the behaviour
Calls == DOMAIN req

maxRetries == 2

\* what the external calls can throw
CreateErrors ==
    { Err("Error", <<"E", "R", "O", "F", "S", ":", " ", "r", "e", "a", "d", "-", "o", "n", "l", "y", " ", "f", "i", "l", "e", " ", "s", "y", "s", "t", "e", "m">>) }

InfoErrors ==
    { Err("Error", <<>>),
      Err("Error", <<"V", "i", "d", "e", "o", " ", "u", "n", "a", "v", "a", "i", "l", "a", "b", "l", "e">>) }

FetchRejections ==
    { Err("TypeError", <<"f", "e", "t", "c", "h", " ", "f", "a", "i", "l", "e", "d">>) }

\* what yt.getBasicInfo can return
JaManual ==
    [language_code |-> "ja", vss_id |-> <<".", "j", "a">>, kind |-> "none",
     base_url |-> <<"u", "1">>, name |-> <<"J", "a", "p", "a", "n", "e", "s", "e">>]
EnAuto ==
    [language_code |-> "en", vss_id |-> <<"a", ".", "e", "n">>, kind |-> "asr",
     base_url |-> <<"u", "2">>, name |-> <<"E", "n", "g", "l", "i", "s", "h", " ", "(", "a", "u", "t", "o", "-", "g", "e", "n", "e", "r", "a", "t", "e", "d", ")">>]
FrNoUrl ==
    [language_code |-> "fr", vss_id |-> <<".", "f", "r">>, kind |-> "none",
     base_url |-> <<>>, name |-> <<"F", "r", "e", "n", "c", "h">>]

FullBasicInfo ==
    [title |-> <<"T">>, channel_name |-> Some(<<"C">>), author |-> <<"A">>,
     short_description |-> <<"D">>, thumbnail_url |-> Some(<<"t", "h">>)]
BareBasicInfo ==
    [title |-> <<>>, channel_name |-> None, author |-> <<>>,
     short_description |-> <<>>, thumbnail_url |-> None]

\* a video with an automatic English and a manual Japanese track
JaEnInfo ==
    [basic_info |-> FullBasicInfo, caption_tracks |-> Some(<<EnAuto, JaManual>>)]

Infos ==
    { [basic_info |-> FullBasicInfo, caption_tracks |-> None],
      [basic_info |-> BareBasicInfo, caption_tracks |-> Some(<<>>)],
      JaEnInfo,
      [basic_info |-> FullBasicInfo, caption_tracks |-> Some(<<FrNoUrl>>)] }

\* the events of a decoded body
TextSeg(text) == JObject(<<Member("utf8", JString(text))>>)
HelloEvents ==
    << JObject(<<Member("tStartMs", JNumber(0)),
                 Member("dDurationMs", JNumber(1000)),
                 Member("segs", JArray(<<TextSeg(Hello)>>))>>),
       JObject(<<Member("tStartMs", JNumber(1200)),
                 Member("dDurationMs", JNumber(800)),
                 Member("segs", JArray(<<TextSeg(WorldKuten)>>))>>) >>

\* one event whose only sub-segment is blank
BlankEvents ==
    << JObject(<<Member("tStartMs", JNumber(0)),
                 Member("segs", JArray(<<TextSeg(<<" ">>)>>))>>) >>

\* an event with text, then a value that makes the loop throw
NullEvents == <<HelloEvents[1], JNull>>
SegsObjectEvents ==
    << JObject(<<Member("tStartMs", JNumber(0)), Member("segs", JObject(<<>>))>>) >>
Utf8NumberEvents ==
    << JObject(<<Member("tStartMs", JNumber(0)),
                 Member("segs", JArray(<<JObject(<<Member("utf8", JNumber(5))>>)>>))>>) >>

\* {"events": v}
WithEvents(v) == JObject(<<Member("events", v)>>)

\* a body response.json() rejects, with the message of the SyntaxError, and
\* a body it decodes to data
NotJson(message) == [json |-> FALSE, message |-> message]
Json(data) == [json |-> TRUE, data |-> data]

\* the bodies two concurrent calls are answered with: the empty body, {},
\* {"events": {}}, {"events": "abc"}, {"events": []} and two bodies with
\* well-formed events
SharedBodies ==
    { NotJson(<<"U", "n", "e", "x", "p", "e", "c", "t", "e", "d", " ", "e", "n", "d", " ", "o", "f", " ", "J", "S", "O", "N", " ", "i", "n", "p", "u", "t">>),
      Json(JObject(<<>>)),
      Json(WithEvents(JObject(<<>>))),
      Json(WithEvents(JString(<<"a", "b", "c">>))),
      Json(WithEvents(JArray(<<>>))),
      Json(WithEvents(JArray(BlankEvents))),
      Json(WithEvents(JArray(HelloEvents))) }

\* the bodies of the model: those, then null, {"events": 0}, and three
\* whose events make the loop throw: a null event after an event with
\* text, segs that is an object, utf8 that is a number
Bodies ==
    SharedBodies
    \cup { Json(JNull),
           Json(WithEvents(JNumber(0))),
           Json(WithEvents(JArray(NullEvents))),
           Json(WithEvents(JArray(SegsObjectEvents))),
           Json(WithEvents(JArray(Utf8NumberEvents))) }

\* what fetch can answer: the status line; the body is not read yet
Responses ==
    { [ok |-> FALSE, status |-> <<"4", "0", "4">>,
       statusText |-> <<"N", "o", "t", " ", "F", "o", "u", "n", "d">>, body |-> None],
      [ok |-> TRUE, status |-> <<"2", "0", "0">>,
       statusText |-> <<"O", "K">>, body |-> None] }

\* the response once response.json() has read the body
WithBody(resp, body) == [resp EXCEPT !.body = Some(body)]

\* fetchTranscriptFromUrl on a response whose body, when the status is ok,
\* was read (actions.ts:94-133): what it throws or the segments it returns
fetchTranscriptFromUrl(resp) ==
    IF ~resp.ok
    THEN Thrown(Err("Error", <<"F", "a", "i", "l", "e", "d", " ", "t", "o", " ", "f", "e", "t", "c", "h", " ", "t", "r", "a", "n", "s", "c", "r", "i", "p", "t", ":", " ">>
                             \o resp.status \o <<" ">> \o resp.statusText))
    ELSE IF ~resp.body[1].json
    THEN Thrown(Err("SyntaxError", resp.body[1].message))
    ELSE DecodeData(resp.body[1].data)

\* the responses fetchTranscriptFromUrl ends on: a status that is not ok,
\* or an ok status and a body
EndResponses ==
    { resp \in Responses : ~resp.ok }
    \cup { WithBody(resp, body) : resp \in { h \in Responses : h.ok },
                                  body \in Bodies }

\* fetchTranscriptFromUrl on the responses of the model, tabulated
FetchOutcome == [resp \in EndResponses |-> fetchTranscriptFromUrl(resp)]

\* what fetchTranscriptFromUrl throws on resp; NoError when it returns
ResponseError(resp) ==
    IF FetchOutcome[resp].thrown THEN FetchOutcome[resp].error ELSE NoError

\* the values the loop of actions.ts:116 runs over
EventsOf(resp) == Iterate(Get(resp.body[1].data, "events")).value

\* the segments fetchTranscriptFromUrl returns (actions.ts:133)
SegmentsOf(resp) == FetchOutcome[resp].value

\* the URLs the server action is called with
CallUrls ==
    { <<>>, <<" ">>, <<"U3000", "\t">>,
      <<"h", "t", "t", "p", "s", ":", "/", "/", "y", "o", "u", "t", "u", ".", "b", "e", ":", "6", "5", "5", "3", "6", "/">> \o BaseId,
      <<"h", "t", "t", "p", "s", ":", "/", "/", "n", "o", "t", "y", "o", "u", "t", "u", "b", "e", ".", "c", "o", "m", "/", "w", "a", "t", "c", "h", "?", "v", "=">> \o BaseId,
      <<"h", "t", "t", "p", "s", ":", "/", "/", "w", "w", "w", ".", "y", "o", "u", "t", "u", "b", "e", ".", "c", "o", "m", "/">>,
      WatchUrl(BaseId) }

\* actions.ts:322-330
Metadata(basicInfo, vid) ==
    [title |-> IF Len(basicInfo.title) > 0 THEN basicInfo.title
               ELSE <<"MSG_TITLE_UNKNOWN">>,
     channelName |->
         IF basicInfo.channel_name # None /\ Len(basicInfo.channel_name[1]) > 0
         THEN basicInfo.channel_name[1]
         ELSE IF Len(basicInfo.author) > 0 THEN basicInfo.author
         ELSE <<"MSG_CHANNEL_UNKNOWN">>,
     description |-> basicInfo.short_description,
     thumbnail |->
         IF basicInfo.thumbnail_url # None /\ Len(basicInfo.thumbnail_url[1]) > 0
         THEN basicInfo.thumbnail_url[1]
         ELSE <<"h", "t", "t", "p", "s", ":", "/", "/", "i", ".", "y", "t", "i", "m", "g", ".", "c", "o", "m", "/", "v", "i", "/">> \o vid \o <<"/", "h", "q", "d", "e", "f", "a", "u", "l", "t", ".", "j", "p", "g">>]

\* mutant of Failure: the metadata is left out
FailureNoMetadata(error, metadata) ==
    [success |-> FALSE, transcript |-> None, language |-> None,
     metadata |-> None, error |-> Some(error)]

\* a TranscriptResult; an absent field is None
Failure(error, metadata) ==
    [success |-> FALSE, transcript |-> None, language |-> None,
     metadata |-> metadata, error |-> Some(error)]

\* mutant of Success: the language label is left out
SuccessNoLanguage(transcript, language, metadata) ==
    [success |-> TRUE, transcript |-> Some(transcript),
     language |-> None, metadata |-> metadata, error |-> None]

Success(transcript, language, metadata) ==
    [success |-> TRUE, transcript |-> Some(transcript),
     language |-> Some(language), metadata |-> metadata, error |-> None]

NoResult ==
    [success |-> FALSE, transcript |-> None, language |-> None,
     metadata |-> None, error |-> None]

IncludesAny(s, ps) == \E q \in ps : Includes(s, q)

\* mutant of ClassifyError: the residual case returns the raw message alone
ClassifyErrorRaw(error) ==
    IF error.name = "TimeoutError" THEN Failure(<<"MSG_TIMEOUT">>, None)
    ELSE Failure(error.message, None)

\* mutant of ClassifyError: the network test comes before the timeout test
ClassifyErrorNetworkFirst(error) ==
    IF IncludesAny(error.message,
             { <<"f", "e", "t", "c", "h">>, <<"n", "e", "t", "w", "o", "r", "k">>,
               <<"E", "C", "O", "N", "N", "R", "E", "F", "U", "S", "E", "D">>, <<"E", "N", "O", "T", "F", "O", "U", "N", "D">> })
    THEN Failure(<<"MSG_NETWORK">>, None)
    ELSE IF \/ IncludesAny(error.message,
             { <<"t", "i", "m", "e", "o", "u", "t">>, <<"T", "i", "m", "e", "o", "u", "t">>, <<"T", "I", "M", "E", "O", "U", "T">> })
            \/ error.name = "TimeoutError"
    THEN Failure(<<"MSG_TIMEOUT">>, None)
    ELSE IF IncludesAny(error.message,
             { <<"T", "r", "a", "n", "s", "c", "r", "i", "p", "t">>, <<"t", "r", "a", "n", "s", "c", "r", "i", "p", "t">>, <<"c", "a", "p", "t", "i", "o", "n">> })
    THEN Failure(<<"MSG_NO_CAPTIONS_ENABLED">>, None)
    ELSE IF IncludesAny(error.message,
             { <<"u", "n", "a", "v", "a", "i", "l", "a", "b", "l", "e">>, <<"V", "i", "d", "e", "o">>, <<"n", "o", "t", " ", "f", "o", "u", "n", "d">> })
    THEN Failure(<<"MSG_UNAVAILABLE">>, None)
    ELSE Failure(<<"MSG_ERROR_PREFIX">> \o error.message, None)

\* the classification after the loop (actions.ts:427-486)
ClassifyError(error) ==
    IF \/ IncludesAny(error.message,
             { <<"t", "i", "m", "e", "o", "u", "t">>, <<"T", "i", "m", "e", "o", "u", "t">>, <<"T", "I", "M", "E", "O", "U", "T">> })
       \/ error.name = "TimeoutError"
    THEN Failure(<<"MSG_TIMEOUT">>, None)
    ELSE IF IncludesAny(error.message,
             { <<"f", "e", "t", "c", "h">>, <<"n", "e", "t", "w", "o", "r", "k">>,
               <<"E", "C", "O", "N", "N", "R", "E", "F", "U", "S", "E", "D">>, <<"E", "N", "O", "T", "F", "O", "U", "N", "D">> })
    THEN Failure(<<"MSG_NETWORK">>, None)
    ELSE IF IncludesAny(error.message,
             { <<"T", "r", "a", "n", "s", "c", "r", "i", "p", "t">>, <<"t", "r", "a", "n", "s", "c", "r", "i", "p", "t">>, <<"c", "a", "p", "t", "i", "o", "n">> })
    THEN Failure(<<"MSG_NO_CAPTIONS_ENABLED">>, None)
    ELSE IF IncludesAny(error.message,
             { <<"u", "n", "a", "v", "a", "i", "l", "a", "b", "l", "e">>, <<"V", "i", "d", "e", "o">>, <<"n", "o", "t", " ", "f", "o", "u", "n", "d">> })
    THEN Failure(<<"MSG_UNAVAILABLE">>, None)
    ELSE Failure(<<"MSG_ERROR_PREFIX">> \o error.message, None)

\* inputs of the classification: a message of one or two words
ClsWords ==
    { <<>>, <<"x">>,
      <<"t", "i", "m", "e", "o", "u", "t">>, <<"T", "i", "m", "e", "o", "u", "t">>, <<"T", "I", "M", "E", "O", "U", "T">>,
      <<"f", "e", "t", "c", "h">>, <<"n", "e", "t", "w", "o", "r", "k">>,
      <<"E", "C", "O", "N", "N", "R", "E", "F", "U", "S", "E", "D">>, <<"E", "N", "O", "T", "F", "O", "U", "N", "D">>,
      <<"T", "r", "a", "n", "s", "c", "r", "i", "p", "t">>, <<"t", "r", "a", "n", "s", "c", "r", "i", "p", "t">>, <<"c", "a", "p", "t", "i", "o", "n">>,
      <<"u", "n", "a", "v", "a", "i", "l", "a", "b", "l", "e">>, <<"V", "i", "d", "e", "o">>, <<"n", "o", "t", " ", "f", "o", "u", "n", "d">>,
      <<"E", "R", "O", "F", "S">>, <<"4", "0", "3">>, <<"F", "o", "r", "b", "i", "d", "d", "e", "n">> }
ClsErrors ==
    { Err(n, a \o <<" ">> \o b) : n \in {"Error", "TimeoutError"},
                                   a \in ClsWords, b \in ClsWords }

ClsIdle == clsError = NoError /\ clsResult = NoResult /\ clsPc = "idle"

ClsInit == clsError \in ClsErrors /\ clsResult = NoResult /\ clsPc = "start"

\* the code after the loop, for the error of the last attempt
ClassifyReturn ==
    /\ clsPc = "start"
    /\ clsResult' = ClassifyError(clsError)
    /\ clsPc' = "done"
    /\ UNCHANGED <<clsError, fmtVars, selVars, urlVars, prsVars, trVars, srvVars>>

\* the classification of the errors of the model, tabulated
ThrownErrors ==
    (CreateErrors \cup InfoErrors \cup FetchRejections
     \cup { ResponseError(resp) : resp \in { h \in Responses : ~h.ok } }
     \cup { ResponseError(WithBody(resp, body)) :
               resp \in { h \in Responses : h.ok }, body \in Bodies })
    \ { NoError }

Classified == [e \in ThrownErrors |-> ClassifyError(e)]

\* a getTranscript call.  Besides the locals of the code, info and resp are
\* what yt.getBasicInfo and fetch answered in the current attempt (the body
\* of resp is None until response.json() has read it), calls
\* and caught count the getInnertube calls and the exceptions caught,
\* obtained is the metadata last built, and prevYt is the yt of the
\* attempt before the current one (0 when it got none).
IdleReq ==
    [pc |-> "idle", url |-> <<>>, videoId |-> None, attempt |-> 0,
     lastError |-> NoError, yt |-> 0, awaiting |-> 0, metadata |-> None,
     track |-> NULL, delayMs |-> 0, calls |-> 0, caught |-> 0,
     obtained |-> None, info |-> None, resp |-> None, prevYt |-> 0,
     result |-> NoResult]

\* a return statement: the locals of the call are gone (the return after the
\* loop keeps, in lastError, the error it classified: see Catch)
Return(rq, result) ==
    [rq EXCEPT !.pc = "done", !.result = result, !.awaiting = 0,
               !.lastError = NoError,
               !.metadata = None, !.track = NULL, !.yt = 0, !.prevYt = 0]

\* mutant of Catch: the first exception ends the call
CatchNoRetry(rq, error) ==
    [Return(rq, Classified[error]) EXCEPT
                    !.lastError = error,
                    !.caught = @ + 1]

\* mutant of Catch: one retry more than maxRetries
CatchOneMore(rq, error) ==
    IF rq.attempt < maxRetries + 1
    THEN [rq EXCEPT !.pc = "delay",
                    !.lastError = error,
                    !.caught = @ + 1,
                    !.attempt = @ + 1,
                    !.delayMs = 1000 * (rq.attempt + 1),
                    !.metadata = None,
                    !.track = NULL,
                    !.prevYt = rq.yt,
                    !.yt = 0,
                    !.awaiting = 0]
    ELSE [Return(rq, Classified[error]) EXCEPT
                    !.lastError = error,
                    !.caught = @ + 1]

\* the catch block and what follows it (actions.ts:413-425, then either the
\* next iteration up to its delay, 305-313, or the code after the loop)
Catch(rq, error) ==
    IF rq.attempt < maxRetries
    THEN [rq EXCEPT !.pc = "delay",
                    !.lastError = error,
                    !.caught = @ + 1,
                    !.attempt = @ + 1,
                    !.delayMs = 1000 * (rq.attempt + 1),
                    !.metadata = None,
                    !.track = NULL,
                    !.prevYt = rq.yt,
                    !.yt = 0,
                    !.awaiting = 0]
    ELSE [Return(rq, Classified[error]) EXCEPT
                    !.lastError = error,
                    !.caught = @ + 1]

\* mutant of GetInnertube: the cached instance and promise are not consulted
GetInnertubeUncached(r, rq) ==
    /\ inits' = Append(inits, "pending")
    /\ initializationPromise' = Len(inits) + 1
    /\ req' = [req EXCEPT ![r] =
                 [rq EXCEPT !.pc = "getInnertube",
                            !.awaiting = Len(inits) + 1,
                            !.info = None, !.resp = None,
                            !.calls = @ + 1]]
    /\ UNCHANGED innertubeInstance

\* getInnertube (actions.ts:35-67) called by rq, up to its first suspension
\* and with the caller left at its await (actions.ts:315)
GetInnertube(r, rq) ==
    IF innertubeInstance # 0
    THEN /\ req' = [req EXCEPT ![r] =
                      [rq EXCEPT !.pc = "getBasicInfo",
                                 !.yt = innertubeInstance,
                                 !.info = None, !.resp = None,
                                 !.calls = @ + 1]]
         /\ UNCHANGED <<innertubeInstance, initializationPromise, inits>>
    ELSE IF initializationPromise # 0
    THEN /\ req' = [req EXCEPT ![r] =
                      [rq EXCEPT !.pc = "getInnertube",
                                 !.awaiting = initializationPromise,
                                 !.info = None, !.resp = None,
                                 !.calls = @ + 1]]
         /\ UNCHANGED <<innertubeInstance, initializationPromise, inits>>
    ELSE /\ inits' = Append(inits, "pending")
         /\ initializationPromise' = Len(inits) + 1
         /\ req' = [req EXCEPT ![r] =
                      [rq EXCEPT !.pc = "getInnertube",
                                 !.awaiting = Len(inits) + 1,
                                 !.info = None, !.resp = None,
                                 !.calls = @ + 1]]
         /\ UNCHANGED innertubeInstance

SrvIdle ==
    /\ innertubeInstance = 0 /\ initializationPromise = 0
    /\ inits = <<>> /\ req = <<>>

SrvInit ==
    /\ innertubeInstance = 0 /\ initializationPromise = 0
    /\ inits = <<>> /\ req = [r \in Requests |-> IdleReq]

pureVars == <<fmtVars, selVars, urlVars, prsVars, trVars, clsVars>>

\* the checks of actions.ts:279-299 on the URLs of the model, tabulated:
\* the error they return, or None when the URL is accepted
\* mutant of InputError: isValidYouTubeUrl is not consulted
InputErrorUnvalidated(u) ==
    IF Len(u) = 0 \/ Len(Trim(u)) = 0 THEN Some(<<"MSG_ENTER_URL">>)
    ELSE IF extractVideoId(u) = None THEN Some(<<"MSG_NO_VIDEO_ID">>)
    ELSE None

InputError(u) ==
    IF Len(u) = 0 \/ Len(Trim(u)) = 0 THEN Some(<<"MSG_ENTER_URL">>)
    ELSE IF ~isValidYouTubeUrl(u) THEN Some(<<"MSG_INVALID_URL">>)
    ELSE IF extractVideoId(u) = None THEN Some(<<"MSG_NO_VIDEO_ID">>)
    ELSE None

InputCheck == [u \in CallUrls |-> [error |-> InputError(u), videoId |-> extractVideoId(u)]]

\* the return of actions.ts:279-299 with the error of the checks
ReturnInputError(r, u, error) ==
    /\ error # None
    /\ req' = [req EXCEPT ![r] =
          Return([req[r] EXCEPT !.url = u], Failure(error[1], None))]

\* getTranscript on an input the checks reject
CallRejected(r, u) ==
    /\ req[r].pc = "idle"
    /\ ReturnInputError(r, u, InputCheck[u].error)
    /\ UNCHANGED <<innertubeInstance, initializationPromise, inits, pureVars>>

\* the first attempt on an input whose checks gave check
FirstAttempt(r, u, check) ==
    /\ check.error = None
    /\ GetInnertube(r, [req[r] EXCEPT !.url = u, !.videoId = check.videoId])

\* getTranscript on an accepted input, up to the await of attempt 0
CallAccepted(r, u) ==
    /\ req[r].pc = "idle"
    /\ FirstAttempt(r, u, InputCheck[u])
    /\ UNCHANGED pureVars

\* Innertube.create of initialization p resolves (actions.ts:55-57); the
\* callers awaiting p go on to yt.getBasicInfo (actions.ts:315-317)
CreateResolves(p) ==
    /\ p \in 1..Len(inits) /\ inits[p] = "pending"
    /\ inits' = [inits EXCEPT ![p] = "fulfilled"]
    /\ innertubeInstance' = p
    /\ req' = [r \in Calls |->
                 IF req[r].pc = "getInnertube" /\ req[r].awaiting = p
                 THEN [req[r] EXCEPT !.pc = "getBasicInfo", !.yt = p,
                                     !.awaiting = 0]
                 ELSE req[r]]
    /\ UNCHANGED <<initializationPromise, pureVars>>

\* Innertube.create of initialization p throws (actions.ts:58-63); the
\* callers awaiting p catch the error
CreateRejects(p, e) ==
    /\ p \in 1..Len(inits) /\ inits[p] = "pending"
    /\ inits' = [inits EXCEPT ![p] = "rejected"]
    /\ initializationPromise' = 0
    /\ LET waiting(r) == req[r].pc = "getInnertube" /\ req[r].awaiting = p
       IN  /\ req' = [r \in Calls |->
                        IF waiting(r) THEN Catch(req[r], e) ELSE req[r]]
           /\ innertubeInstance' =
                 IF \E r \in Calls : waiting(r) /\ req[r].attempt < maxRetries
                 THEN 0 ELSE innertubeInstance
    /\ UNCHANGED pureVars

\* the delay of a retry elapses (actions.ts:312), then getInnertube
TimerFires(r) ==
    /\ req[r].pc = "delay"
    /\ GetInnertube(r, req[r])
    /\ UNCHANGED pureVars

\* mutant of ThrowAfter: a retry keeps the cached session
ThrowAfterNoReset(r, rq, e) ==
    /\ req' = [req EXCEPT ![r] = Catch(rq, e)]
    /\ UNCHANGED <<innertubeInstance, initializationPromise>>
    /\ UNCHANGED <<inits, pureVars>>

\* an exception in the try block of r: the catch, and for a retry the reset
\* of the cached session (actions.ts:308-311)
ThrowAfter(r, rq, e) ==
    /\ req' = [req EXCEPT ![r] = Catch(rq, e)]
    /\ IF rq.attempt < maxRetries
       THEN innertubeInstance' = 0 /\ initializationPromise' = 0
       ELSE UNCHANGED <<innertubeInstance, initializationPromise>>
    /\ UNCHANGED <<inits, pureVars>>

Throw(r, e) == ThrowAfter(r, req[r], e)

BasicInfoThrows(r, e) ==
    /\ req[r].pc = "getBasicInfo"
    /\ Throw(r, e)

\* yt.getBasicInfo returns: actions.ts:317-388
BasicInfoReturns(r, info) ==
    /\ req[r].pc = "getBasicInfo"
    /\ LET metadata == Metadata(info.basic_info, req[r].videoId[1])
           rq == [req[r] EXCEPT !.metadata = Some(metadata),
                                !.obtained = Some(metadata),
                                !.info = Some(info)]
           captionTracks == info.caption_tracks
           selectedTrack ==
               IF captionTracks = None THEN NULL
               ELSE selectBestCaptionTrack(captionTracks[1], <<"ja", "en">>)
       IN  req' = [req EXCEPT ![r] =
             IF captionTracks = None \/ Len(captionTracks[1]) = 0
             THEN Return(rq, Failure(<<"MSG_NO_CAPTIONS">>, Some(metadata)))
             ELSE IF selectedTrack = NULL \/ Len(selectedTrack.base_url) = 0
             THEN Return(rq, Failure(<<"MSG_NO_CAPTIONS">>, Some(metadata)))
             ELSE [rq EXCEPT !.pc = "fetch", !.track = selectedTrack]]
    /\ UNCHANGED <<innertubeInstance, initializationPromise, inits, pureVars>>

\* fetch rejects (actions.ts:86)
FetchRejects(r, e) ==
    /\ req[r].pc = "fetch"
    /\ Throw(r, e)

\* fetch answers with a status that is not ok: fetchTranscriptFromUrl
\* throws (actions.ts:86-101)
FetchFails(r, resp) ==
    /\ req[r].pc = "fetch"
    /\ ~resp.ok
    /\ ThrowAfter(r, [req[r] EXCEPT !.resp = Some(resp)], ResponseError(resp))

\* fetch answers with an ok status: the call goes on to await
\* response.json() (actions.ts:86-103)
FetchReturns(r, resp) ==
    /\ req[r].pc = "fetch"
    /\ resp.ok
    /\ req' = [req EXCEPT ![r] = [@ EXCEPT !.pc = "json", !.resp = Some(resp)]]
    /\ UNCHANGED <<innertubeInstance, initializationPromise, inits, pureVars>>

\* response.json() rejects, or the code after it throws on the decoded data
\* (actions.ts:103-116)
JsonFails(r, body) ==
    /\ req[r].pc = "json"
    /\ ResponseError(WithBody(req[r].resp[1], body)) # NoError
    /\ ThrowAfter(r, [req[r] EXCEPT !.resp = Some(WithBody(req[r].resp[1], body))],
                  ResponseError(WithBody(req[r].resp[1], body)))

\* response.json() resolves and fetchTranscriptFromUrl returns its
\* segments: actions.ts:103-133, 388-412
JsonReturns(r, body) ==
    /\ req[r].pc = "json"
    /\ ResponseError(WithBody(req[r].resp[1], body)) = NoError
    /\ LET resp == WithBody(req[r].resp[1], body)
           segs == SegmentsOf(resp)
           rq == [req[r] EXCEPT !.resp = Some(resp)]
       IN  req' = [req EXCEPT ![r] =
             IF Len(segs) = 0
             THEN Return(rq,
                         Failure(<<"MSG_EXTRACT_FAILED">>, req[r].metadata))
             ELSE Return(rq,
                         Success(formatTranscript(segs),
                                 translateLanguageName(req[r].track.name),
                                 req[r].metadata))]
    /\ UNCHANGED <<innertubeInstance, initializationPromise, inits, pureVars>>

(***************************************************************************)
(* Specifications                                                          *)
(***************************************************************************)
FormatNext ==
    \/ FormatReturnEmpty
    \/ FormatEnterLoop
    \/ FormatPunct
    \/ FormatPlain
    \/ FormatReturn

FormatInit == FmtInit /\ SelIdle /\ UrlIdle /\ PrsIdle /\ TrIdle /\ SrvIdle /\ ClsIdle

FormatSpec == FormatInit /\ [][FormatNext]_vars

SelectNext == SelectReturn

SelectInit == SelInit /\ FmtIdle /\ UrlIdle /\ PrsIdle /\ TrIdle /\ SrvIdle /\ ClsIdle

SelectSpec == SelectInit /\ [][SelectNext]_vars

UrlNext ==
    \/ ExtractVideoId
    \/ IsValidYouTubeUrl

UrlSpecInit == UrlInit /\ FmtIdle /\ SelIdle /\ PrsIdle /\ TrIdle /\ SrvIdle /\ ClsIdle

UrlSpec == UrlSpecInit /\ [][UrlNext]_vars

ParseNext ==
    \/ ParseReturn
    \/ ParseThrows

ParseInit == PrsInit /\ FmtIdle /\ SelIdle /\ UrlIdle /\ TrIdle /\ SrvIdle /\ ClsIdle

ParseSpec == ParseInit /\ [][ParseNext]_vars

TranslateNext == TranslateReturn

TranslateInit == TrInit /\ FmtIdle /\ SelIdle /\ UrlIdle /\ PrsIdle /\ SrvIdle /\ ClsIdle

TranslateSpec == TranslateInit /\ [][TranslateNext]_vars

ClassifyNext == ClassifyReturn

ClassifyInit == ClsInit /\ FmtIdle /\ SelIdle /\ UrlIdle /\ PrsIdle /\ TrIdle /\ SrvIdle

ClassifySpec == ClassifyInit /\ [][ClassifyNext]_vars

Next ==
    \/ \E r \in Calls, u \in CallUrls : CallRejected(r, u)
    \/ \E r \in Calls, u \in CallUrls : CallAccepted(r, u)
    \/ \E p \in 1..Len(inits) : CreateResolves(p)
    \/ \E p \in 1..Len(inits), e \in CreateErrors : CreateRejects(p, e)
    \/ \E r \in Calls : TimerFires(r)
    \/ \E r \in Calls, e \in InfoErrors : BasicInfoThrows(r, e)
    \/ \E r \in Calls, info \in Infos : BasicInfoReturns(r, info)
    \/ \E r \in Calls, e \in FetchRejections : FetchRejects(r, e)
    \/ \E r \in Calls, resp \in Responses : FetchFails(r, resp)
    \/ \E r \in Calls, resp \in Responses : FetchReturns(r, resp)
    \/ \E r \in Calls, body \in SharedBodies : JsonFails(r, body)
    \/ \E r \in Calls, body \in SharedBodies : JsonReturns(r, body)

Init == SrvInit /\ FmtIdle /\ SelIdle /\ UrlIdle /\ PrsIdle /\ TrIdle /\ ClsIdle

Spec == Init /\ [][Next]_vars

\* One or more calls whose every external call (Innertube.create, the retry
\* timer, yt.getBasicInfo, fetch, response.json) eventually returns or throws.
FairRequests == 1..NumFairRequests

FairInit ==
    /\ innertubeInstance = 0 /\ initializationPromise = 0
    /\ inits = <<>> /\ req = [r \in FairRequests |-> IdleReq]
    /\ FmtIdle /\ SelIdle /\ UrlIdle /\ PrsIdle /\ TrIdle /\ ClsIdle

InitIds == 1..(NumFairRequests * (maxRetries + 1))

Fairness ==
    /\ \A p \in InitIds :
          WF_vars(CreateResolves(p) \/ \E e \in CreateErrors : CreateRejects(p, e))
    /\ \A r \in FairRequests :
          /\ WF_vars(TimerFires(r))
          /\ WF_vars(\/ \E e \in InfoErrors : BasicInfoThrows(r, e)
                     \/ \E info \in Infos : BasicInfoReturns(r, info))
          /\ WF_vars(\/ \E e \in FetchRejections : FetchRejects(r, e)
                     \/ \E resp \in Responses : FetchFails(r, resp)
                     \/ \E resp \in Responses : FetchReturns(r, resp))
          /\ WF_vars(\/ \E body \in SharedBodies : JsonFails(r, body)
                     \/ \E body \in SharedBodies : JsonReturns(r, body))

FairSpec == FairInit /\ [][Next]_vars /\ Fairness

\* The calls of FairInit, one at a time, answered with every body of the
\* model.
FetchNext ==
    \/ \E r \in Calls, u \in CallUrls : CallRejected(r, u)
    \/ \E r \in Calls, u \in CallUrls : CallAccepted(r, u)
    \/ \E p \in 1..Len(inits) : CreateResolves(p)
    \/ \E p \in 1..Len(inits), e \in CreateErrors : CreateRejects(p, e)
    \/ \E r \in Calls : TimerFires(r)
    \/ \E r \in Calls, e \in InfoErrors : BasicInfoThrows(r, e)
    \/ \E r \in Calls, info \in Infos : BasicInfoReturns(r, info)
    \/ \E r \in Calls, e \in FetchRejections : FetchRejects(r, e)
    \/ \E r \in Calls, resp \in Responses : FetchFails(r, resp)
    \/ \E r \in Calls, resp \in Responses : FetchReturns(r, resp)
    \/ \E r \in Calls, body \in Bodies : JsonFails(r, body)
    \/ \E r \in Calls, body \in Bodies : JsonReturns(r, body)

FetchSpec == FairInit /\ [][FetchNext]_vars

(***************************************************************************)
(* Properties of formatTranscript (FormatSpec)                             *)
(***************************************************************************)
Gap(s1, s2) == s2.startMs - SegEnd(s1)

(* C1: a segment without sentence-ending punctuation followed, with no gap *)
(* over 5000 ms, by a segment with one of the three marks gives a single   *)
(* line: the first text, one space, the second text.                       *)
C1_PunctuatedJoinedBySpace ==
    (/\ fmtPc = "done" /\ Len(segments) = 2
     /\ Len(segments[1].text) > 0
     /\ ~HasSentenceEnd(segments[1].text)
     /\ HasSentenceEnd(segments[2].text)
     /\ Gap(segments[1], segments[2]) <= LINE_BREAK_INTERVAL_MS)
    => fmtResult = Trim(segments[1].text \o <<" ">> \o segments[2].text)

(* C2 as stated: two segments with non-empty text and a gap over 5000 ms   *)
(* give the first text, a double newline, the second text.                 *)
C2_GapGivesTwoParagraphs ==
    (/\ fmtPc = "done" /\ Len(segments) = 2
     /\ Len(segments[1].text) > 0 /\ Len(segments[2].text) > 0
     /\ Gap(segments[1], segments[2]) > LINE_BREAK_INTERVAL_MS)
    => fmtResult = segments[1].text \o <<"\n", "\n">> \o segments[2].text

(* C2 amended: two segments whose texts are non-empty after trimming, with *)
(* a gap over 5000 ms, give the two trimmed texts separated by a double    *)
(* newline provided the first contains a sentence-ending mark, or the      *)
(* second contains none and the first ends after time 0.                   *)
C2_GapGivesTwoParagraphsAmended ==
    (/\ fmtPc = "done" /\ Len(segments) = 2
     /\ Len(Trim(segments[1].text)) > 0 /\ Len(Trim(segments[2].text)) > 0
     /\ Gap(segments[1], segments[2]) > LINE_BREAK_INTERVAL_MS
     /\ \/ HasSentenceEnd(segments[1].text)
        \/ ~HasSentenceEnd(segments[2].text) /\ SegEnd(segments[1]) > 0)
    => fmtResult = Trim(segments[1].text) \o <<"\n", "\n">> \o Trim(segments[2].text)

C2_Witness ==
    /\ fmtPc = "done" /\ Len(segments) = 2
    /\ segments[1].text = <<"a", " ", "b">> /\ segments[2].text = Hello
    /\ SegEnd(segments[1]) = 1000 /\ segments[2].startMs = 6001
    /\ fmtResult = <<"a", " ", "b", "\n", "\n">> \o Hello

(***************************************************************************)
(* Properties of selectBestCaptionTrack (SelectSpec)                       *)
(***************************************************************************)
Least(S) == CHOOSE k \in S : \A j \in S : k <= j

\* the positions of the manual and of the automatic tracks of a language
ManualsOf(lang) ==
    { k \in 1..Len(tracks) : tracks[k].language_code = lang /\ IsManual(tracks[k]) }
AutosOf(lang) ==
    { k \in 1..Len(tracks) : tracks[k].language_code = lang /\ IsAuto(tracks[k]) }

\* the ranks of the preferred languages that have a manual or automatic track
MatchedRanks ==
    { j \in 1..Len(preferredLangs) :
        ManualsOf(preferredLangs[j]) \cup AutosOf(preferredLangs[j]) # {} }

EnManualTrack ==
    [language_code |-> "en", vss_id |-> <<".", "x">>, kind |-> "none", base_url |-> <<"u">>]
JaAutoTrack ==
    [language_code |-> "ja", vss_id |-> <<"a", ".", "x">>, kind |-> "none", base_url |-> <<"u">>]

(* C3: the result is a track of the earliest preferred language that has a *)
(* manual or automatic track; it is that language's first manual track if  *)
(* it has one and its first automatic track otherwise; [en manual, ja auto]*)
(* with preference [ja, en] gives the ja auto track in either input order. *)
C3_LanguageThenManual ==
    selPc = "done" =>
        /\ MatchedRanks # {} =>
              LET lang == preferredLangs[Least(MatchedRanks)]
              IN  /\ selected # NULL
                  /\ selected.language_code = lang
                  /\ ManualsOf(lang) # {} => selected = tracks[Least(ManualsOf(lang))]
                  /\ ManualsOf(lang) = {} => selected = tracks[Least(AutosOf(lang))]
        /\ (/\ tracks \in { <<EnManualTrack, JaAutoTrack>>, <<JaAutoTrack, EnManualTrack>> }
            /\ preferredLangs = <<"ja", "en">>)
           => selected = JaAutoTrack

C3_Witness ==
    /\ selPc = "done"
    /\ tracks = <<EnManualTrack, JaAutoTrack>>
    /\ preferredLangs = <<"ja", "en">>
    /\ selected = JaAutoTrack

(* C4: the result is null exactly when the track list is empty; with a     *)
(* non-empty list and no preferred language matched it is the first track; *)
(* a non-null result is an element of the list.                            *)
C4_NullIffEmpty ==
    selPc = "done" =>
        /\ selected = NULL <=> Len(tracks) = 0
        /\ (Len(tracks) > 0 /\ MatchedRanks = {}) => selected = tracks[1]
        /\ selected # NULL => \E k \in 1..Len(tracks) : tracks[k] = selected

C4_Witness ==
    /\ selPc = "done"
    /\ Len(tracks) = 2 /\ tracks[1] # tracks[2]
    /\ preferredLangs = <<"ja", "en">>
    /\ MatchedRanks = {}
    /\ selected = tracks[1]

(***************************************************************************)
(* Properties of extractVideoId and isValidYouTubeUrl (UrlSpec)            *)
(***************************************************************************)
(* C9: for a well-formed identifier and each of the four recognized URL    *)
(* shapes, extractVideoId returns the identifier and isValidYouTubeUrl is  *)
(* true.                                                                   *)
C9_RecognizedShapes ==
    urlPc = "done" =>
        \A id \in WellFormedIds :
            url \in RecognizedUrls(id) => videoId = Some(id) /\ valid

C9_Witness ==
    /\ urlPc = "done"
    /\ \E id \in WellFormedIds \ {BaseId} :
          url = VUrl(id) /\ videoId = Some(id) /\ valid

(* C10: for a URL whose host is not in the allow-list, extractVideoId      *)
(* returns null and isValidYouTubeUrl false, whatever the URL contains.    *)
C10_DisallowedHostRejected ==
    (/\ urlPc = "done"
     /\ ParseURL(url).ok
     /\ ParseURL(url).hostname \notin validHosts)
    => videoId = None /\ valid = FALSE

\* the query parameter v=id starts at position k of u (after ? or &) and
\* ends at the next parameter, the fragment or the end of u
VParamAt(u, k, id) ==
    /\ \/ MatchesAt(u, k, <<"?", "v", "=">> \o id)
       \/ MatchesAt(u, k, <<"&", "v", "=">> \o id)
    /\ \/ k + 3 + Len(id) > Len(u)
       \/ u[k + 3 + Len(id)] \in {"&", "#"}

\* u is a watch URL on an allowed host whose query string contains v=id
IsWatchUrlWithV(u, id) ==
    /\ ParseURL(u).ok
    /\ ParseURL(u).hostname \in validHosts
    /\ Includes(u, <<"/", "w", "a", "t", "c", "h", "?">>)
    /\ \E k \in 1..Len(u) : VParamAt(u, k, id)

(* C11: for a watch URL on an allowed host whose query string contains     *)
(* v=<id>, with other parameters before or after it, extractVideoId        *)
(* returns <id>.                                                           *)
C11_WatchQueryAnyPosition ==
    urlPc # "start" =>
        \A id \in WellFormedIds :
            IsWatchUrlWithV(url, id) => videoId = Some(id)

\* no recognized pattern occurs anywhere in u
NoPatternPresent(u) ==
    \A n \in 1..Len(Patterns) : \A k \in 1..Len(u) : ~PatternAt(u, k, Patterns[n])

(* C12: for every input string both functions return a value;              *)
(* isValidYouTubeUrl is false for the empty string and for a string that   *)
(* does not parse as a URL, and extractVideoId is null when no recognized  *)
(* pattern is present.                                                     *)
C12_TotalOnMalformedInput ==
    /\ urlPc # "start" =>
          /\ videoId \in {None} \cup { Some(SubSeq(url, k, k + ID_LENGTH - 1)) :
                                         k \in 1..(Len(url) - ID_LENGTH + 1) }
          /\ NoPatternPresent(url) => videoId = None
    /\ urlPc = "done" =>
          /\ valid \in BOOLEAN
          /\ (Len(url) = 0 \/ ~ParseURL(url).ok) => valid = FALSE

C12_Witness ==
    /\ urlPc = "done"
    /\ ~ParseURL(url).ok
    /\ \E p \in NoSchemePrefixes, id \in WellFormedIds :
          url = p \o id /\ videoId = Some(id) /\ valid = FALSE

(***************************************************************************)
(* Properties of getInnertube and getTranscript (Spec, FairSpec)           *)
(***************************************************************************)
\* the initializations whose Innertube.create has not settled
InFlight == { p \in 1..Len(inits) : inits[p] = "pending" }

Done(r) == req[r].pc = "done"

(* C5: at most one initialization is in flight at any time.                *)
C5_SingleFlight == Cardinality(InFlight) <= 1

(* C6: a failure result returned after metadata was obtained in some       *)
(* attempt of the call carries that metadata.                              *)
C6_FailureKeepsMetadata ==
    \A r \in Calls :
        (Done(r) /\ ~req[r].result.success /\ req[r].obtained # None)
        => req[r].result.metadata = req[r].obtained

(* C7: getTranscript never rejects: every exception of an attempt is       *)
(* caught, and a call that has ended has a result that is either a success *)
(* or success=false with a non-empty error message.                        *)
C7_NeverRejects ==
    \A r \in Calls :
        /\ req[r].pc \in {"idle", "getInnertube", "getBasicInfo", "fetch", "json",
                        "delay", "done"}
        /\ Done(r) =>
              \/ req[r].result.success
              \/ /\ req[r].result.error # None
                 /\ Len(req[r].result.error[1]) > 0

C7_Witness ==
    \E r1 \in Calls, r2 \in Calls :
        /\ Done(r1) /\ req[r1].caught = maxRetries + 1
        /\ req[r1].lastError = Err("Error", <<>>)
        /\ req[r1].result.error = Some(<<"MSG_ERROR_PREFIX">>)
        /\ Done(r2) /\ req[r2].caught = maxRetries + 1
        /\ req[r2].lastError.name = "SyntaxError"
        /\ req[r2].result.error =
              Some(<<"MSG_ERROR_PREFIX">> \o <<"U", "n", "e", "x", "p", "e", "c", "t", "e", "d", " ", "e", "n", "d", " ", "o", "f", " ", "J", "S", "O", "N", " ", "i", "n", "p", "u", "t">>)

\* the part of C8 that holds in every state
C8_Bounded ==
    \A r \in Calls :
        /\ req[r].calls <= maxRetries + 1
        /\ req[r].calls <= req[r].caught + 1
        /\ req[r].pc = "delay" =>
              /\ req[r].attempt \in 1..maxRetries
              /\ req[r].delayMs = 1000 * req[r].attempt
              /\ req[r].caught = req[r].attempt

(* C8: a call makes at most 3 attempts, a retry follows a thrown attempt   *)
(* only, the delay before retry k is 1000*k ms, and if every external call *)
(* eventually returns or throws the call eventually returns.               *)
C8_BoundedRetriesTerminate ==
    /\ []C8_Bounded
    /\ \A r \in FairRequests : (req[r].pc # "idle") ~> Done(r)

C8_Witness ==
    \E r \in Calls :
        /\ Done(r) /\ req[r].calls = maxRetries + 1
        /\ req[r].caught = maxRetries + 1
        /\ req[r].delayMs = 2000

(* C13: every result getTranscript returns has exactly one outcome:        *)
(* success=true with transcript and language set and no error, or          *)
(* success=false with an error and neither transcript nor language.        *)
C13_ExactlyOneOutcome ==
    \A r \in Calls :
        Done(r) =>
            LET res == req[r].result
            IN  /\ res.success =>
                      /\ res.transcript # None /\ Len(res.transcript[1]) > 0
                      /\ res.language # None
                      /\ res.error = None
                /\ ~res.success =>
                      /\ res.error # None
                      /\ res.transcript = None
                      /\ res.language = None

C13_Witness ==
    \E r1 \in Calls, r2 \in Calls :
        /\ Done(r1) /\ req[r1].result.success
        /\ req[r1].result.transcript # None /\ req[r1].result.error = None
        /\ Done(r2) /\ ~req[r2].result.success
        /\ req[r2].result.error # None /\ req[r2].result.transcript = None

\* u is empty or whitespace, malformed, on a disallowed host, or without an
\* extractable video identifier
BadHost(parsedUrl) == ~parsedUrl.ok \/ parsedUrl.hostname \notin validHosts

BadInput(u) ==
    \/ Len(Trim(u)) = 0
    \/ BadHost(ParseURL(u))
    \/ extractVideoId(u) = None

\* BadInput on the URLs of the calls, tabulated
BadCallUrl == [u \in CallUrls |-> BadInput(u)]

\* the cached session state and the initializations started
SessionState == <<innertubeInstance, initializationPromise, inits>>

(* C14: a call with a bad URL returns success=false in the step that       *)
(* starts it, without calling getInnertube (hence without Innertube.create,*)
(* getBasicInfo or fetch), without any retry and with the cached session   *)
(* state untouched.                                                        *)
C14_InputErrorsBeforeNetwork ==
    /\ [][\A r \in Calls :
            (req[r].pc = "idle" /\ req'[r].pc # "idle" /\ BadCallUrl[req'[r].url])
            => /\ Done(r)'
               /\ ~req'[r].result.success
               /\ req'[r].result.error # None
               /\ SessionState' = SessionState]_vars
    /\ [](\A r \in Calls :
            (req[r].pc # "idle" /\ BadCallUrl[req[r].url])
            => /\ Done(r)
               /\ req[r].calls = 0 /\ req[r].caught = 0 /\ req[r].attempt = 0
               /\ req[r].info = None /\ req[r].resp = None)

C14_Witness ==
    \E r1 \in Calls, r2 \in Calls :
        /\ Done(r1) /\ ~req[r1].result.success /\ req[r1].calls = 0
        /\ ParseURL(req[r1].url).ok
        /\ ParseURL(req[r1].url).hostname \in validHosts
        /\ extractVideoId(req[r1].url) = None
        /\ req[r2].pc = "getInnertube" /\ initializationPromise # 0

\* the body of the response of the current attempt of rq was read and
\* fetchTranscriptFromUrl returned its segments
Accepted(rq) ==
    /\ rq.resp # None
    /\ rq.resp[1].ok
    /\ rq.resp[1].body # None
    /\ ResponseError(rq.resp[1]) = NoError

\* the fetch of the current attempt of rq returned no segment
\* (actions.ts:388-393)
NoSegments(rq) == Accepted(rq) /\ SegmentsOf(rq.resp[1]) = <<>>

\* the answers of the current attempt of rq show that the video has no
\* usable captions: no track list or an empty one, a selected track without
\* base_url, or a fetched payload that decodes to no segment
CaptionAbsent(rq) ==
    /\ rq.info # None
    /\ LET captionTracks == rq.info[1].caption_tracks
       IN  \/ captionTracks = None
           \/ Len(captionTracks[1]) = 0
           \/ Len(selectBestCaptionTrack(captionTracks[1], <<"ja", "en">>).base_url) = 0
           \/ NoSegments(rq)

\* the messages that say that the video has no captions (actions.ts:347,
\* 381, 467)
NoCaptionsMessages == { <<"MSG_NO_CAPTIONS">>, <<"MSG_NO_CAPTIONS_ENABLED">> }

\* call r has returned success=false with the metadata of its attempt,
\* whose title, channel name and thumbnail are populated
FailedWithMetadata(r) ==
    /\ Done(r)
    /\ ~req[r].result.success
    /\ req[r].result.error # None
    /\ req[r].result.metadata # None
    /\ req[r].result.metadata =
          Some(Metadata(req[r].info[1].basic_info, req[r].videoId[1]))
    /\ Len(req[r].result.metadata[1].title) > 0
    /\ Len(req[r].result.metadata[1].channelName) > 0
    /\ Len(req[r].result.metadata[1].thumbnail) > 0

\* the step that shows caption absence starts no new attempt and leaves the
\* cached session alone, and the call stays returned
AbsenceIsFinal ==
    [][\A r \in Calls :
         /\ (~CaptionAbsent(req[r]) /\ CaptionAbsent(req'[r])) =>
                /\ req'[r].attempt = req[r].attempt
                /\ req'[r].calls = req[r].calls
                /\ req'[r].caught = req[r].caught
                /\ SessionState' = SessionState
         /\ CaptionAbsent(req[r]) => req'[r] = req[r]]_vars

(* C15 as stated: when the answers of an attempt show caption absence, the *)
(* call returns in that step success=false with a no-captions message and  *)
(* with metadata whose title, channel name and thumbnail are populated;    *)
(* the step starts no new attempt and leaves the cached session alone, and *)
(* the call stays returned.                                                *)
C15_CaptionAbsenceDefinitive ==
    /\ [](\A r \in Calls :
            CaptionAbsent(req[r]) =>
               /\ FailedWithMetadata(r)
               /\ req[r].result.error[1] \in NoCaptionsMessages)
    /\ AbsenceIsFinal

(* C15 amended: the same, where the message is the no-captions message     *)
(* when the track list is missing or empty or the selected track has no    *)
(* base_url, and the extraction-failed message when the fetch decodes zero *)
(* segments.                                                               *)
C15_CaptionAbsenceDefinitiveAmended ==
    /\ [](\A r \in Calls :
            CaptionAbsent(req[r]) =>
               /\ FailedWithMetadata(r)
               /\ req[r].result.error[1] =
                     IF NoSegments(req[r]) THEN <<"MSG_EXTRACT_FAILED">>
                     ELSE <<"MSG_NO_CAPTIONS">>)
    /\ AbsenceIsFinal

C15_Witness ==
    \E r \in Calls :
        /\ Done(r) /\ CaptionAbsent(req[r])
        /\ Accepted(req[r]) /\ EventsOf(req[r].resp[1]) = BlankEvents
        /\ req[r].caught = 1 /\ req[r].calls = 2
        /\ req[r].result.error = Some(<<"MSG_EXTRACT_FAILED">>)
        /\ req[r].result.metadata # None

\* the fetch of the current attempt of rq decoded at least one segment
Decoded(rq) ==
    IF Accepted(rq)
    THEN SegmentsOf(rq.resp[1])
    ELSE <<>>

(* C16: for a valid URL of a video with one manual Japanese and one        *)
(* automatic English track, the Japanese manual track is the one fetched,  *)
(* and when its fetch decodes at least one segment the call returns        *)
(* success=true, the label of the Japanese track translated (it contains   *)
(* the localized name of Japanese) and formatTranscript of the decoded     *)
(* segments.                                                               *)
C16_EndToEndJapanese ==
    \A r \in Calls :
        req[r].info = Some(JaEnInfo) =>
            /\ req[r].pc \in {"fetch", "json"} => req[r].track = JaManual
            /\ Decoded(req[r]) # <<>> =>
                  /\ Done(r)
                  /\ req[r].result.success
                  /\ req[r].result.language = Some(<<"L_Japanese">>)
                  /\ req[r].result.language =
                        Some(translateLanguageName(JaManual.name))
                  /\ req[r].result.transcript =
                        Some(formatTranscript(Decoded(req[r])))

C16_Witness ==
    \E r \in Calls :
        /\ Done(r) /\ req[r].info = Some(JaEnInfo)
        /\ req[r].url = WatchUrl(BaseId)
        /\ Accepted(req[r]) /\ EventsOf(req[r].resp[1]) = HelloEvents
        /\ req[r].result.success
        /\ req[r].result.language = Some(<<"L_Japanese">>)
        /\ req[r].result.transcript = Some(Hello \o WorldKuten)

(***************************************************************************)
(* Properties of the decoding loop of fetchTranscriptFromUrl (ParseSpec)   *)
(***************************************************************************)
\* some sub-segment of the event has a text with a non-blank character
HasText(event) ==
    /\ TypeOf(Get(event, "segs")) = "array"
    /\ \E k \in 1..Len(Get(event, "segs").array) :
          LET utf8 == Get(Get(event, "segs").array[k], "utf8")
          IN  /\ TypeOf(utf8) = "string"
              /\ \E j \in 1..Len(utf8.string) : utf8.string[j] \notin WhiteSpace

\* the event contributes a segment
Emits(event) == Get(event, "tStartMs") # Undefined /\ HasText(event)

\* the segment of an event that contributes one
SegmentOf(event) ==
    [text |-> JoinSegs(Get(event, "segs").array).value,
     startMs |-> Plain(Get(event, "tStartMs")),
     durationMs |-> IF Get(event, "dDurationMs") = Undefined THEN 0
                    ELSE Plain(Get(event, "dDurationMs"))]

(* C17: the parser emits one segment for exactly the events that have a    *)
(* start time (0 included), sub-segments and a non-empty concatenation of  *)
(* their trimmed texts; the segment carries that concatenation, the start  *)
(* time and the duration or 0; the segments keep the order of their        *)
(* events, have non-empty text and are no more than the events.            *)
C17_ParserEmitsPerEvent ==
    parsePc = "done" =>
        LET emitting == SelectSeq(dataEvents, Emits)
        IN  /\ Len(parsed) = Len(emitting)
            /\ \A k \in 1..Len(parsed) : parsed[k] = SegmentOf(emitting[k])
            /\ \A k \in 1..Len(parsed) : Len(parsed[k].text) > 0
            /\ Len(parsed) <= Len(dataEvents)

C17_Witness ==
    /\ parsePc = "done"
    /\ Len(dataEvents) = 2 /\ Len(parsed) = 1
    /\ ~Emits(dataEvents[1])
    /\ Get(dataEvents[2], "tStartMs") = JNumber(0)
    /\ Get(dataEvents[2], "dDurationMs") = Undefined
    /\ TypeOf(Get(dataEvents[2], "segs")) = "array"
    /\ Len(Get(dataEvents[2], "segs").array) = 2
    /\ parsed[1] = [text |-> <<"a", "b">>, startMs |-> 0, durationMs |-> 0]

(***************************************************************************)
(* Properties of fetchTranscriptFromUrl inside getTranscript (Spec)        *)
(***************************************************************************)
\* the step ends the fetchTranscriptFromUrl of call r on the response resp
Fetched(r, resp) ==
    /\ \/ req[r].pc = "fetch" /\ ~resp.ok
       \/ req[r].pc = "json" /\ resp.ok
    /\ req'[r].resp = Some(resp)

\* the body of resp does not decode, or decodes to a payload without a
\* top-level events container: the payload is null, or its events is absent
\* or falsy, which is what actions.ts:105 tests
NoEventsContainer(resp) ==
    \/ ~resp.body[1].json
    \/ ~Truthy(Get(resp.body[1].data, "events"))

\* the events container of resp is there and is neither a list nor a string:
\* the for-of loop of actions.ts:116 cannot run over it
NotIterable(resp) ==
    /\ ~NoEventsContainer(resp)
    /\ TypeOf(Get(resp.body[1].data, "events")) \notin {"array", "string"}

\* the loop of actions.ts:116-131 throws on this element of the list: it is
\* null, or it has a start time and a truthy segs that is not an array or
\* holds a null or a utf8 that is neither absent, null nor a string
BadEvent(event) ==
    \/ TypeOf(event) = "null"
    \/ /\ Get(event, "tStartMs") # Undefined
       /\ Truthy(Get(event, "segs"))
       /\ \/ TypeOf(Get(event, "segs")) # "array"
          \/ \E k \in 1..Len(Get(event, "segs").array) :
                LET seg == Get(event, "segs").array[k]
                IN  \/ TypeOf(seg) = "null"
                    \/ TypeOf(Get(seg, "utf8")) \notin {"undefined", "null", "string"}

\* the events container of resp is a list with an element the loop throws on
BadEventInList(resp) ==
    /\ ~NoEventsContainer(resp)
    /\ TypeOf(Get(resp.body[1].data, "events")) = "array"
    /\ \E k \in 1..Len(Get(resp.body[1].data, "events").array) :
          BadEvent(Get(resp.body[1].data, "events").array[k])

\* the events container of resp is an empty list or a string
NoEventObjects(resp) ==
    \/ Get(resp.body[1].data, "events") = JArray(<<>>)
    \/ TypeOf(Get(resp.body[1].data, "events")) = "string"

\* the step treats the exception of fetchTranscriptFromUrl as a failed
\* attempt of call r
FailedAttempt(r, resp) ==
    /\ req'[r].caught = req[r].caught + 1
    /\ req'[r].lastError = ResponseError(resp)
    /\ IF req[r].attempt < maxRetries
       THEN /\ req'[r].pc = "delay"
            /\ req'[r].attempt = req[r].attempt + 1
       ELSE /\ Done(r)'
            /\ ~req'[r].result.success

\* the step goes on with the segments fetchTranscriptFromUrl returned
ReturnedNormally(r, resp) ==
    /\ req'[r].caught = req[r].caught
    /\ req'[r].lastError = NoError
    /\ Done(r)'
    /\ NoEventObjects(resp) =>
          req'[r].result.error = Some(<<"MSG_EXTRACT_FAILED">>)

(* C18 as stated: fetchTranscriptFromUrl throws when the response is not   *)
(* OK or the payload has no events container, and returns normally in      *)
(* every other case.  Violated by the payload {"events": {}}.              *)
C18_ThrowsOnlyWithoutContainer ==
    [][\A r \in Calls : \A resp \in EndResponses :
          Fetched(r, resp) =>
             IF ~resp.ok \/ NoEventsContainer(resp)
             THEN FailedAttempt(r, resp)
             ELSE req'[r].caught = req[r].caught /\ Done(r)']_vars

(* C18: fetchTranscriptFromUrl throws when the response is not OK, when the*)
(* body does not decode or has no events container, when the events        *)
(* container is neither a list nor a string, or when an element of the     *)
(* list makes the loop throw, and returns normally otherwise; an empty     *)
(* events list and a string give an empty segment list and no exception.   *)
(* In getTranscript the exception is a failed attempt: it is caught, and   *)
(* it is retried while the call has retries left, else the call returns a  *)
(* failure.                                                                *)
C18_FetchFailureIsFailedAttempt ==
    [][\A r \in Calls : \A resp \in EndResponses :
          Fetched(r, resp) =>
             IF \/ ~resp.ok
                \/ NoEventsContainer(resp)
                \/ NotIterable(resp)
                \/ BadEventInList(resp)
             THEN FailedAttempt(r, resp)
             ELSE ReturnedNormally(r, resp)]_vars

C18_Witness ==
    \E r \in Calls :
        /\ req[r].pc = "delay" /\ req[r].caught = maxRetries
        /\ req[r].attempt = maxRetries
        /\ req[r].resp # None /\ req[r].resp[1].ok
        /\ req[r].resp[1].body # None
        /\ BadEventInList(req[r].resp[1])
        /\ req[r].lastError = ResponseError(req[r].resp[1])

(***************************************************************************)
(* Properties of translateLanguageName (TranslateSpec)                     *)
(***************************************************************************)
\* the table entries, by position, whose English name occurs in s
MatchingEntries(s) ==
    { n \in 1..Len(languageMap) : Includes(s, languageMap[n][1]) }

\* a name followed by a marker, the marker normalized
Normalized(name, marker) ==
    name \o (IF marker = <<>> THEN <<>> ELSE NormalizedMarker)

(* C19: a table language name followed by an auto-generated marker is      *)
(* mapped to the localized name followed by the normalized marker; of the  *)
(* table entries that match a label only the first in table order is       *)
(* replaced; a label that matches none is returned with the marker         *)
(* normalized and nothing else changed.                                    *)
C19_TranslateNameThenMarker ==
    trPc = "done" =>
        \A name \in TableNames \cup OtherNames, marker \in AutoMarkers \cup {<<>>} :
            trInput = name \o marker =>
                LET norm == Normalized(name, marker)
                    matching == MatchingEntries(norm)
                IN  /\ \A n \in 1..Len(languageMap) :
                          (name = languageMap[n][1] /\ marker # <<>>) =>
                             trOutput = languageMap[n][2] \o NormalizedMarker
                    /\ matching = {} => trOutput = norm
                    /\ matching # {} =>
                          trOutput = ReplaceFirst(norm,
                                                  languageMap[Least(matching)][1],
                                                  languageMap[Least(matching)][2])

C19_Witness ==
    /\ trPc = "done"
    /\ trInput = <<"J", "a", "p", "a", "n", "e", "s", "e", " ">> \o AutoMarkerEn
    /\ trOutput = <<"L_Japanese">> \o NormalizedMarker

(***************************************************************************)
(* Properties of a failed initialization (Spec)                            *)
(***************************************************************************)
\* the step in which Innertube.create of initialization p throws
Fails(p) == inits[p] = "pending" /\ inits'[p] = "rejected"

\* call r is awaiting initialization p
Awaits(r, p) == req[r].pc = "getInnertube" /\ req[r].awaiting = p

(* C20: when an initialization fails, the cached pending initialization is *)
(* cleared and no instance is cached, so that the next getInnertube starts *)
(* a new initialization; a rejected initialization is never the cached one *)
(* nor awaited; every caller awaiting the failed one catches the failure.  *)
C20_FailedInitCleared ==
    /\ [][\A p \in 1..Len(inits) :
            Fails(p) =>
               /\ initializationPromise' = 0
               /\ innertubeInstance' = 0
               /\ \A r \in Calls :
                     Awaits(r, p) =>
                        /\ req'[r].caught = req[r].caught + 1
                        /\ req'[r].lastError \in CreateErrors]_vars
    /\ [](/\ initializationPromise # 0 =>
                inits[initializationPromise] # "rejected"
          /\ \A r \in Calls :
                req[r].pc = "getInnertube" => inits[req[r].awaiting] = "pending")

(***************************************************************************)
(* Properties of the classification after the retry loop (ClassifySpec)    *)
(***************************************************************************)
(* C21: the error of the last attempt is classified as timeout, network,   *)
(* access-blocked or filesystem, each with its own message, and an error   *)
(* of none of these categories is returned as the prefix followed by its   *)
(* raw message: the result always carries one of these messages.           *)
C21_FourCategoriesOrRaw ==
    clsPc = "done" =>
        /\ clsResult.error # None
        /\ clsResult.error[1] \in
              { <<"MSG_TIMEOUT">>, <<"MSG_NETWORK">>, <<"MSG_ACCESS_BLOCKED">>,
                <<"MSG_FILESYSTEM">>, <<"MSG_ERROR_PREFIX">> \o clsError.message }

\* the categories of actions.ts:432-480 in the order they are tested: the
\* message returned, and the error names and message words that select it
ClsCategories ==
    << [message |-> <<"MSG_TIMEOUT">>, names |-> {"TimeoutError"},
        words |-> { <<"t", "i", "m", "e", "o", "u", "t">>, <<"T", "i", "m", "e", "o", "u", "t">>, <<"T", "I", "M", "E", "O", "U", "T">> }],
       [message |-> <<"MSG_NETWORK">>, names |-> {},
        words |-> { <<"f", "e", "t", "c", "h">>, <<"n", "e", "t", "w", "o", "r", "k">>,
                    <<"E", "C", "O", "N", "N", "R", "E", "F", "U", "S", "E", "D">>, <<"E", "N", "O", "T", "F", "O", "U", "N", "D">> }],
       [message |-> <<"MSG_NO_CAPTIONS_ENABLED">>, names |-> {},
        words |-> { <<"T", "r", "a", "n", "s", "c", "r", "i", "p", "t">>, <<"t", "r", "a", "n", "s", "c", "r", "i", "p", "t">>, <<"c", "a", "p", "t", "i", "o", "n">> }],
       [message |-> <<"MSG_UNAVAILABLE">>, names |-> {},
        words |-> { <<"u", "n", "a", "v", "a", "i", "l", "a", "b", "l", "e">>, <<"V", "i", "d", "e", "o">>, <<"n", "o", "t", " ", "f", "o", "u", "n", "d">> }] >>

\* the categories the error matches, by position
CategoriesOf(error) ==
    { k \in 1..Len(ClsCategories) :
        \/ error.name \in ClsCategories[k].names
        \/ \E w \in ClsCategories[k].words :
              \E a \in ClsWords, b \in ClsWords :
                 /\ error.message = a \o <<" ">> \o b
                 /\ (w = a \/ w = b) }

(* C21 as amended: the categories are timeout, network, captions disabled  *)
(* and video unavailable, tested in this order; the first one the error    *)
(* matches gives the message, the four messages differ, and an error that  *)
(* matches none is returned as the prefix followed by its raw message.     *)
C21_CategoriesByPrecedence ==
    /\ Cardinality({ ClsCategories[k].message : k \in 1..Len(ClsCategories) }) = 4
    /\ clsPc = "done" =>
          /\ ~clsResult.success
          /\ clsResult.error # None
          /\ LET ks == CategoriesOf(clsError)
             IN  IF ks = {}
                 THEN clsResult.error[1] = <<"MSG_ERROR_PREFIX">> \o clsError.message
                 ELSE clsResult.error[1] = ClsCategories[Least(ks)].message

C21_Witness ==
    /\ clsPc = "done"
    /\ clsError = Err("Error", <<"f", "e", "t", "c", "h", " ", "T", "i", "m", "e", "o", "u", "t">>)
    /\ clsResult.error = Some(<<"MSG_TIMEOUT">>)

(***************************************************************************)
(* Further properties of selectBestCaptionTrack (SelectSpec)               *)
(***************************************************************************)
\* the ranks of the preferred languages that some track carries
PresentRanks ==
    { j \in 1..Len(preferredLangs) :
        \E k \in 1..Len(tracks) : tracks[k].language_code = preferredLangs[j] }

(* C22: whenever some track has a language code of preferredLangs, the     *)
(* returned track has the earliest preferred language that occurs among    *)
(* the tracks; the first-track fallback is used only when none occurs.     *)
C22_FallbackOnlyWithoutPreferred ==
    (selPc = "done" /\ PresentRanks # {}) =>
        /\ selected # NULL
        /\ selected.language_code = preferredLangs[Least(PresentRanks)]

(***************************************************************************)
(* Further properties of formatTranscript (FormatSpec)                     *)
(***************************************************************************)
\* the lines committed once the loop is over: those of the loop, then the
\* rest of the buffer when it is not blank
CommittedLines ==
    IF Len(Trim(currentLine)) > 0 THEN Append(lines, Trim(currentLine)) ELSE lines

NewlinesIn(s) == Cardinality({ k \in 1..Len(s) : s[k] = "\n" })

NoNewline(segs) ==
    \A k \in 1..Len(segs) : \A j \in 1..Len(segs[k].text) : segs[k].text[j] # "\n"

(* C23: the output is the committed lines joined by a double newline with  *)
(* no leading or trailing separator; no segments give the empty string; a  *)
(* non-blank buffer left after the last segment is the final line; no      *)
(* committed line is empty, so that (texts holding no newline) the output  *)
(* never has three newlines in a row.                                      *)
C23_LinesJoinedByDoubleNewline ==
    /\ \A k \in 1..Len(lines) : Len(lines[k]) > 0
    /\ fmtPc = "done" =>
          /\ Len(segments) = 0 => fmtResult = <<>>
          /\ fmtResult = Join(CommittedLines, <<"\n", "\n">>)
          /\ Len(currentLine) > 0 /\ Len(Trim(currentLine)) > 0 =>
                /\ Len(CommittedLines) = Len(lines) + 1
                /\ CommittedLines[Len(CommittedLines)] = Trim(currentLine)
          /\ Len(fmtResult) > 0 =>
                fmtResult[1] # "\n" /\ fmtResult[Len(fmtResult)] # "\n"
          /\ NoNewline(segments) =>
                /\ NewlinesIn(fmtResult) =
                      IF CommittedLines = <<>> THEN 0 ELSE 2 * (Len(CommittedLines) - 1)
                /\ \A k \in 1..(Len(fmtResult) - 2) :
                      ~(fmtResult[k] = "\n" /\ fmtResult[k + 1] = "\n"
                          /\ fmtResult[k + 2] = "\n")

C23_Witness ==
    /\ fmtPc = "done" /\ Len(segments) = 2
    /\ lines = <<WorldKuten>> /\ currentLine = <<"a", " ", "b">>
    /\ fmtResult = WorldKuten \o <<"\n", "\n", "a", " ", "b">>

\* a step of the loop that consumes a segment without sentence-ending mark
PlainStep ==
    /\ fmtPc = "loop" /\ i' = i + 1
    /\ ~HasSentenceEnd(segments[i + 1].text)

\* the step commits the buffer as a line and starts the next with the text
StartsParagraph ==
    /\ lines' = Append(lines, Trim(currentLine))
    /\ currentLine' = segments[i + 1].text

(* C24 as stated: a segment without mark starts a new paragraph exactly    *)
(* when the last end time is over 0, its start exceeds the last end time   *)
(* by more than 5000 ms and the buffer is non-empty; otherwise nothing is  *)
(* committed; the last end time is 0 only while no segment is consumed.    *)
C24_GapRule ==
    /\ [][PlainStep =>
            IF /\ lastEndMs > 0
               /\ segments[i + 1].startMs - lastEndMs > LINE_BREAK_INTERVAL_MS
               /\ Len(currentLine) > 0
            THEN StartsParagraph
            ELSE lines' = lines]_vars
    /\ [](lastEndMs = 0 => i = 0)

(* C24 amended: the buffer must be non-empty after trimming, and the last  *)
(* end time is 0 only while no segment is consumed or when the segment     *)
(* consumed last ends at time 0.                                           *)
C24_GapRuleAmended ==
    /\ [][PlainStep =>
            IF /\ lastEndMs > 0
               /\ segments[i + 1].startMs - lastEndMs > LINE_BREAK_INTERVAL_MS
               /\ Len(Trim(currentLine)) > 0
            THEN StartsParagraph
            ELSE lines' = lines]_vars
    /\ [](lastEndMs = 0 => (i = 0 \/ SegEnd(segments[i]) = 0))

C24_Witness ==
    /\ fmtPc = "loop" /\ i = 2
    /\ ~HasSentenceEnd(segments[2].text)
    /\ Gap(segments[1], segments[2]) = LINE_BREAK_INTERVAL_MS + 1
    /\ lines = <<<<"a">>>> /\ currentLine = Hello

\* a step of the loop that consumes a segment with a sentence-ending mark
PunctStep ==
    /\ fmtPc = "loop" /\ i' = i + 1
    /\ HasSentenceEnd(segments[i + 1].text)

(* C25: a segment with a sentence-ending mark always ends the current line *)
(* and never triggers the gap rule, whatever its distance from the end of  *)
(* the previous segment: buffer and text form one line; after a segment is *)
(* consumed by either branch the last end time is its start plus duration. *)
C25_PunctuationEndsLine ==
    /\ [][PunctStep =>
            /\ lines' = Append(lines, Trim(currentLine \o segments[i + 1].text))
            /\ currentLine' = <<>>]_vars
    /\ [](i > 0 => lastEndMs = SegEnd(segments[i]))

C25_Witness ==
    /\ fmtPc = "loop" /\ i = 2
    /\ segments[1].text = <<"a">> /\ SegEnd(segments[1]) = 1000
    /\ segments[2].text = <<"b", "QUES">> /\ segments[2].startMs = 6001
    /\ lines = << <<"a", "b", "QUES">> >> /\ currentLine = <<>>
    /\ lastEndMs = 7001

\* what the formatter puts between two texts: nothing, a space, a separator
Glue == { <<>>, <<" ">>, <<"\n", "\n">> }

\* the texts of segs from position k on, with g[j] between texts j and j+1
RECURSIVE Interleave(_, _, _)
Interleave(segs, g, k) ==
    IF k > Len(segs) THEN <<>>
    ELSE IF k = Len(segs) THEN segs[k].text
    ELSE segs[k].text \o g[k] \o Interleave(segs, g, k + 1)

\* the output is the texts in input order, with separators and joiners only
TextsInOrder ==
    \E g \in [1..(Len(segments) - 1) -> Glue] :
        fmtResult = Interleave(segments, g, 1)

(* C26: for every segment sequence the parser can hand over, the output    *)
(* without its paragraph separators and single-space joiners is the        *)
(* concatenation of the segment texts in input order, and the segments are *)
(* not changed.                                                            *)
C26_NothingDropped ==
    /\ [](fmtPc = "done" => TextsInOrder)
    /\ [][segments' = segments]_vars

C26_Witness ==
    /\ fmtPc = "done" /\ Len(segments) = 2
    /\ segments[1].text = Hello /\ segments[2].text = <<"a", " ", "b">>
    /\ fmtResult = Hello \o <<" ", "a", " ", "b">>

(***************************************************************************)
(* Further properties of getTranscript and getInnertube (Spec)             *)
(***************************************************************************)
\* a step in which call r goes on to its next attempt
StartsRetry(r) == req'[r].attempt = req[r].attempt + 1

\* a step in which call r enters its first attempt
StartsFirstAttempt(r) == req[r].pc = "idle" /\ req'[r].pc \notin {"idle", "done"}

(* C27: before every retry attempt both the cached instance and the cached *)
(* pending initialization are cleared, so the session a retry attempt uses *)
(* is never the instance the previous attempt of the call used; the first  *)
(* attempt clears nothing.                                                 *)
C27_RetryUsesFreshSession ==
    /\ [][\A r \in Calls :
            /\ StartsRetry(r) =>
                  innertubeInstance' = 0 /\ initializationPromise' = 0
            /\ StartsFirstAttempt(r) =>
                  /\ innertubeInstance' = innertubeInstance
                  /\ initializationPromise # 0 =>
                        initializationPromise' = initializationPromise]_vars
    /\ [](\A r \in Calls :
            (req[r].attempt > 0 /\ req[r].yt # 0) => req[r].yt # req[r].prevYt)

C27_Witness ==
    \E r \in Calls :
        /\ req[r].attempt = 2 /\ req[r].pc = "getBasicInfo"
        /\ req[r].prevYt # 0 /\ req[r].yt # 0

\* no call has gone on to a retry attempt
NoRetry == \A r \in Calls : req[r].attempt = 0

(* C28: once an initialization has succeeded and while no call retries,    *)
(* every getInnertube call returns the same cached instance and no further *)
(* initialization is started: calls that succeed on their first attempt    *)
(* cause exactly one initialization in total.                              *)
C28_OneInitializationWithoutRetry ==
    /\ [](NoRetry =>
            /\ Len(inits) <= 1
            /\ innertubeInstance \in {0, 1}
            /\ \A r \in Calls : req[r].yt \in {0, 1}
            /\ (\E r \in Calls : Done(r) /\ req[r].result.success) =>
                  inits = <<"fulfilled">>)
    /\ [][(innertubeInstance # 0 /\ NoRetry /\ NoRetry') =>
            /\ inits' = inits
            /\ innertubeInstance' = innertubeInstance
            /\ \A r \in Calls :
                  req'[r].calls = req[r].calls + 1 =>
                      req'[r].yt = innertubeInstance]_vars

C28_Witness ==
    /\ NoRetry /\ Cardinality(Calls) > 1
    /\ \A r \in Calls : Done(r) /\ req[r].result.success /\ req[r].calls = 1
    /\ inits = <<"fulfilled">>

\* a step in which initialization p settles
Settles(p, outcome) == inits[p] = "pending" /\ inits'[p] = outcome

(* C29: the completion of an initialization started before a retry reset   *)
(* never alters the session state of a later initialization: its late      *)
(* failure, when no call resets the session in the same step, leaves the   *)
(* pending promise of a newer initialization in flight in place, and its   *)
(* late success does not replace the cached instance of a newer one.       *)
C29_LateCompletionHarmless ==
    [][\A p \in 1..Len(inits) :
         /\ (/\ Settles(p, "rejected")
             /\ initializationPromise > p
             /\ inits[initializationPromise] = "pending"
             /\ \A r \in Calls : ~StartsRetry(r))
            => initializationPromise' = initializationPromise
         /\ (Settles(p, "fulfilled") /\ innertubeInstance > p)
            => innertubeInstance' = innertubeInstance]_vars

\* the test of handleSubmit that shows the transcript (page.tsx:34)
HandleSubmitShowsTranscript(res) ==
    res.success /\ res.transcript # None /\ Len(res.transcript[1]) > 0

(* C30: a result with success=true carries a non-empty transcript: the     *)
(* decoded segments have non-empty trimmed text, a response decoding to no *)
(* segment gives a failure, and the formatted text of the segments is      *)
(* non-empty, so handleSubmit shows the transcript of every success.       *)
C30_SuccessHasTranscript ==
    \A r \in Calls :
        Done(r) =>
            LET res == req[r].result
                segs == Decoded(req[r])
            IN  /\ res.success =>
                      /\ Len(segs) > 0
                      /\ \A k \in 1..Len(segs) :
                            Len(segs[k].text) > 0 /\ Trim(segs[k].text) = segs[k].text
                      /\ res.transcript = Some(formatTranscript(segs))
                      /\ HandleSubmitShowsTranscript(res)
                /\ (Accepted(req[r]) /\ Len(segs) = 0) =>
                      /\ ~res.success
                      /\ res.error = Some(<<"MSG_EXTRACT_FAILED">>)

C30_Witness ==
    \E r1 \in Calls, r2 \in Calls :
        /\ Done(r1) /\ req[r1].result.success /\ req[r1].caught = maxRetries
        /\ HandleSubmitShowsTranscript(req[r1].result)
        /\ Done(r2) /\ Accepted(req[r2])
        /\ EventsOf(req[r2].resp[1]) = BlankEvents
        /\ ~HandleSubmitShowsTranscript(req[r2].result)

=============================================================================
